---- MODULE Spec2Model ----
(***************************************************************************)
(* Model of the bucket-brigade operator console: the App state             *)
(* (src/src/app.rs), the key-event handlers and the migration orchestrator *)
(* (src/src/tui/mod.rs) and the storage service wrapper (src/src/aws.rs).  *)
(*                                                                         *)
(* Rust Strings that the program inspects or orders (bucket names, object  *)
(* keys, mask names and patterns) are sequences of one-character strings.  *)
(* A formatted status message is the tuple of its fixed text followed by   *)
(* its arguments.  Option<T> is <<>> for None and <<x>> for Some(x).       *)
(* Result<T> is <<"Ok", v>> or <<"Err", e>>.  The characters U+2026 and    *)
(* U+2013 of the status texts are written "..." and "-".                   *)
(***************************************************************************)
EXTENDS Integers, Sequences, FiniteSets, TLC

VARIABLES app, policy_store, loop, reqs, last, input, nevents

vars == <<app, policy_store, loop, reqs, last, input, nevents>>

(***************************************************************************)
(* Bounds of the model.                                                    *)
(***************************************************************************)
\* free key events explored after the scripted part of a session
MaxEvents == 2

(***************************************************************************)
(* Option and Result.                                                      *)
(***************************************************************************)
None == <<>>

Some(x) == <<x>>

IsSome(o) == o # <<>>

Unwrap(o) == o[1]

Ok(v) == <<"Ok", v>>

Err(e) == <<"Err", e>>

IsOk(r) == r[1] = "Ok"

\* anyhow::Error: a backend (SDK) error or a local message (bail!/context)
LocalError(msg) == [kind |-> "Local", code |-> None, message |-> Some(msg)]

(***************************************************************************)
(* Strings: byte order of the characters the model uses (ASCII order).     *)
(***************************************************************************)
Alphabet == <<" ", "A", "a", "b", "c", "q">>

Ord(c) == CHOOSE i \in 1..Len(Alphabet) : Alphabet[i] = c

RECURSIVE StrLess(_, _)
\* String::cmp(a, b) = Less : lexicographic by character
StrLess(a, b) ==
    IF b = <<>> THEN FALSE
    ELSE IF a = <<>> THEN TRUE
    ELSE IF Ord(Head(a)) < Ord(Head(b)) THEN TRUE
    ELSE IF Ord(Head(a)) > Ord(Head(b)) THEN FALSE
    ELSE StrLess(Tail(a), Tail(b))

RECURSIVE InsertSorted(_, _, _)
InsertSorted(x, s, field) ==
    IF s = <<>> THEN <<x>>
    ELSE IF StrLess(x[field], Head(s)[field]) THEN <<x>> \o s
    ELSE <<Head(s)>> \o InsertSorted(x, Tail(s), field)

RECURSIVE SortBy(_, _)
\* Vec::sort_by(|a, b| a.field.cmp(&b.field)) : a stable sort
SortBy(s, field) ==
    IF s = <<>> THEN <<>>
    ELSE InsertSorted(s[Len(s)], SortBy(SubSeq(s, 1, Len(s) - 1), field), field)

(***************************************************************************)
(* app.rs                                                                  *)
(***************************************************************************)
STATUS_LIMIT == 20

UntitledMask == <<"U", "n", "t", "i", "t", "l", "e", "d", " ", "m", "a", "s", "k">>

MaskDraft_default ==
    [name |-> UntitledMask, pattern |-> <<>>, kind |-> "Prefix", case_sensitive |-> FALSE]

\* `pushed` is a history variable, not a field of the struct: every message
\* ever handed to push_status, in order.
App_new(policies) ==
    [buckets |-> <<>>,
     objects |-> <<>>,
     filtered_objects |-> <<>>,
     selected_bucket |-> 0,
     selected_object |-> 0,
     status |-> <<>>,
     active_pane |-> "Buckets",
     mode |-> "Browsing",
     mask_draft |-> MaskDraft_default,
     active_mask |-> None,
     policies |-> policies,
     pending_action |-> None,
     storage_class_cursor |-> 0,
     storage_intent |-> "Transition",
     mask_field |-> "Pattern",
     pushed |-> <<>>]

\* Vec::get(i) with a 0-based index
Get(s, i) == IF i < Len(s) THEN Some(s[i + 1]) ELSE None

selected_bucket_name(a) ==
    IF a.selected_bucket < Len(a.buckets)
    THEN Some(a.buckets[a.selected_bucket + 1].name)
    ELSE None

active_objects(a) ==
    IF IsSome(a.active_mask) THEN a.filtered_objects ELSE a.objects

selected_object(a) == Get(active_objects(a), a.selected_object)

\* push_status that evicts only once the log is over its capacity
push_status_late_evict(a, status) ==
    [a EXCEPT !.status = Append(IF Len(a.status) > STATUS_LIMIT
                                THEN Tail(a.status) ELSE a.status, status),
              !.pushed = Append(a.pushed, status)]


push_status(a, status) ==
    LET kept == IF Len(a.status) = STATUS_LIMIT THEN Tail(a.status) ELSE a.status
    IN  [a EXCEPT !.status = Append(kept, status),
                  !.pushed = Append(a.pushed, status)]

set_buckets(a, buckets) ==
    [a EXCEPT !.buckets = buckets, !.selected_bucket = 0]

set_objects(a, objects) ==
    [a EXCEPT !.objects = objects, !.filtered_objects = <<>>, !.selected_object = 0]

set_mode(a, mode) == [a EXCEPT !.mode = mode]

focus_mask_field(a, field) == [a EXCEPT !.mask_field = field]

next_pane(a) ==
    [a EXCEPT !.active_pane =
        CASE a.active_pane = "Buckets" -> "Objects"
          [] a.active_pane = "Objects" -> "MaskEditor"
          [] a.active_pane = "MaskEditor" -> "Policies"
          [] a.active_pane = "Policies" -> "Buckets"]

previous_pane(a) ==
    [a EXCEPT !.active_pane =
        CASE a.active_pane = "Buckets" -> "Policies"
          [] a.active_pane = "Objects" -> "Buckets"
          [] a.active_pane = "MaskEditor" -> "Objects"
          [] a.active_pane = "Policies" -> "MaskEditor"]

MaskEditorField_next(f) ==
    CASE f = "Name" -> "Pattern"
      [] f = "Pattern" -> "Mode"
      [] f = "Mode" -> "Case"
      [] f = "Case" -> "Name"

MaskEditorField_previous(f) ==
    CASE f = "Name" -> "Case"
      [] f = "Pattern" -> "Name"
      [] f = "Mode" -> "Pattern"
      [] f = "Case" -> "Mode"

next_mask_field(a) == [a EXCEPT !.mask_field = MaskEditorField_next(a.mask_field)]

previous_mask_field(a) == [a EXCEPT !.mask_field = MaskEditorField_previous(a.mask_field)]

cycle_mask_kind(a) ==
    [a EXCEPT !.mask_draft.kind =
        CASE a.mask_draft.kind = "Prefix" -> "Suffix"
          [] a.mask_draft.kind = "Suffix" -> "Contains"
          [] a.mask_draft.kind = "Contains" -> "Regex"
          [] a.mask_draft.kind = "Regex" -> "Prefix"]

cycle_mask_kind_backwards(a) ==
    [a EXCEPT !.mask_draft.kind =
        CASE a.mask_draft.kind = "Prefix" -> "Regex"
          [] a.mask_draft.kind = "Suffix" -> "Prefix"
          [] a.mask_draft.kind = "Contains" -> "Suffix"
          [] a.mask_draft.kind = "Regex" -> "Contains"]

toggle_mask_case(a) ==
    [a EXCEPT !.mask_draft.case_sensitive = ~a.mask_draft.case_sensitive]

(***************************************************************************)
(* The mask predicate (crate::mask), the tier tables (crate::models) and   *)
(* the policy store (crate::policy) belong to other modules of the crate;  *)
(* they follow the written specification.                                  *)
(***************************************************************************)
ToLower(c) == IF c = "A" THEN "a" ELSE c

to_lowercase(s) == [i \in 1..Len(s) |-> ToLower(s[i])]

starts_with(key, pat) ==
    Len(pat) <= Len(key) /\ SubSeq(key, 1, Len(pat)) = pat

ends_with(key, pat) ==
    Len(pat) <= Len(key) /\ SubSeq(key, Len(key) - Len(pat) + 1, Len(key)) = pat

contains(key, pat) ==
    \E i \in 0..(Len(key) - Len(pat)) : SubSeq(key, i + 1, i + Len(pat)) = pat

\* whether a Regex pattern compiles: of the characters typed in the model
\* only "(" is a metacharacter, and an unclosed group does not compile
regex_compiles(pattern) == \A i \in 1..Len(pattern) : pattern[i] # "("

\* a compiled pattern searched for anywhere in the key; a pattern made of
\* literal characters matches where it occurs
regex_is_match(key, pattern) == regex_compiles(pattern) /\ contains(key, pattern)

\* ObjectMask::matches(&self, key)
matches(mask, key) ==
    LET k == IF mask.case_sensitive THEN key ELSE to_lowercase(key)
        p == IF mask.case_sensitive THEN mask.pattern ELSE to_lowercase(mask.pattern)
    IN  CASE mask.kind = "Prefix" -> starts_with(k, p)
          [] mask.kind = "Suffix" -> ends_with(k, p)
          [] mask.kind = "Contains" -> contains(k, p)
          [] mask.kind = "Regex" -> regex_is_match(k, p)

\* StorageClassTier::selectable()
selectable == <<"Standard", "InfrequentAccess", "Glacier", "DeepArchive", "Intelligent">>

\* StorageClassTier::to_sdk(): Some for every tier the API accepts
to_sdk_is_some(tier) == tier \in {selectable[i] : i \in 1..Len(selectable)}

\* MigrationPolicy::new(bucket, mask, target_class, scheduled, schedule)
MigrationPolicy_new(bucket, mask, target_class, scheduled, schedule) ==
    [bucket |-> bucket, mask |-> mask, target_class |-> target_class,
     scheduled |-> scheduled, schedule |-> schedule]

\* PolicyStore::add(policy): persist, then append to the in-memory collection;
\* `outcome` is the outcome of the write to disk
PolicyStore_add(store, policy, outcome) ==
    IF IsOk(outcome)
    THEN [store |-> Append(store, policy), res |-> Ok(<<>>)]
    ELSE [store |-> store, res |-> outcome]

(***************************************************************************)
(* app.rs, continued                                                       *)
(***************************************************************************)
filter_objects(objects, mask) ==
    SelectSeq(objects, LAMBDA obj : matches(mask, obj.key))

\* the report at the end of apply_mask(Some(mask))
mask_applied(a, mask) ==
    IF a.filtered_objects = <<>>
    THEN push_status(a, <<"Mask applied but matched no objects">>)
    ELSE push_status(a, <<"Mask '{}' matched {} objects", mask.name,
                          Len(a.filtered_objects)>>)

\* apply_mask that narrows the object list itself to the matches
apply_mask_narrowing(a, mask) ==
    IF IsSome(mask)
    THEN push_status([a EXCEPT !.active_mask = mask,
                               !.objects = filter_objects(a.objects, Unwrap(mask)),
                               !.filtered_objects = filter_objects(a.objects, Unwrap(mask)),
                               !.selected_object = 0],
                     <<"Mask '{}' matched {} objects", Unwrap(mask).name,
                       Len(filter_objects(a.objects, Unwrap(mask)))>>)
    ELSE push_status([a EXCEPT !.active_mask = mask, !.filtered_objects = <<>>],
                     <<"Cleared mask filter">>)

apply_mask(a, mask) ==
    IF IsSome(mask)
    THEN mask_applied([a EXCEPT !.active_mask = mask,
                                !.filtered_objects = filter_objects(a.objects, Unwrap(mask)),
                                !.selected_object = 0],
                      Unwrap(mask))
    ELSE push_status([a EXCEPT !.active_mask = mask, !.filtered_objects = <<>>],
                     <<"Cleared mask filter">>)

(***************************************************************************)
(* aws.rs                                                                  *)
(***************************************************************************)
\* list_buckets handing on the buckets in the order served
list_buckets_unsorted(raw) ==
    IF IsOk(raw)
    THEN Ok([i \in 1..Len(raw[2]) |-> [name |-> raw[2][i]]])
    ELSE raw

\* S3Service::list_buckets: `raw` is the outcome of the ListBuckets call, a
\* list of bucket names in the order the backend serves them
list_buckets(raw) ==
    IF IsOk(raw)
    THEN Ok(SortBy([i \in 1..Len(raw[2]) |-> [name |-> raw[2][i]]], "name"))
    ELSE raw

\* The x-amz-restore header is a string; Ch and Rest are the byte at an
\* index and the slice after the first n bytes
Ch(s, i) == SubSeq(s, i, i)

Rest(s, n) == SubSeq(s, n + 1, Len(s))

\* str::find: the index of the first occurrence of `pat` in `s`, 0 if none
find(s, pat) ==
    IF \E i \in 1..(Len(s) - Len(pat) + 1) : SubSeq(s, i, i + Len(pat) - 1) = pat
    THEN CHOOSE i \in 1..(Len(s) - Len(pat) + 1) :
             /\ SubSeq(s, i, i + Len(pat) - 1) = pat
             /\ \A j \in 1..(i - 1) : SubSeq(s, j, j + Len(pat) - 1) # pat
    ELSE 0

RECURSIVE to_ascii_lowercase(_)
\* str::to_ascii_lowercase: 'A'..='Z' map to 'a'..='z', every other byte is kept
to_ascii_lowercase(value) ==
    IF value = "" THEN ""
    ELSE (IF find("ABCDEFGHIJKLMNOPQRSTUVWXYZ", Ch(value, 1)) # 0
          THEN Ch("abcdefghijklmnopqrstuvwxyz",
                  find("ABCDEFGHIJKLMNOPQRSTUVWXYZ", Ch(value, 1)))
          ELSE Ch(value, 1))
         \o to_ascii_lowercase(Rest(value, 1))

\* s.split(pat).next(): the text before the first occurrence of `pat`, the
\* whole text if there is none
split_first(s, pat) ==
    IF find(s, pat) # 0 THEN SubSeq(s, 1, find(s, pat) - 1) ELSE s

\* value.split("expiry-date=\"").nth(1).and_then(|part| part.split('"').next())
expiry_text(value) ==
    IF find(value, "expiry-date=\"") # 0
    THEN Some(split_first(split_first(Rest(value, find(value, "expiry-date=\"") + 12),
                                      "expiry-date=\""),
                          "\""))
    ELSE None

RECURSIVE Leading(_, _, _)
\* the number of bytes of `class` that `s` starts with, counted up to `max`
Leading(s, class, max) ==
    IF max > 0 /\ s # "" /\ find(class, Ch(s, 1)) # 0
    THEN 1 + Leading(Rest(s, 1), class, max - 1)
    ELSE 0

RECURSIVE DecimalValue(_)
DecimalValue(digits) ==
    IF digits = "" THEN 0
    ELSE 10 * DecimalValue(SubSeq(digits, 1, Len(digits) - 1))
         + find("0123456789", Ch(digits, Len(digits))) - 1

\* chrono scan::number: between `min` and `max` leading digits
number(s, min, max) ==
    [ok |-> Leading(s, "0123456789", max) >= min,
     len |-> Leading(s, "0123456789", max),
     v |-> DecimalValue(SubSeq(s, 1, Leading(s, "0123456789", max))),
     s |-> Rest(s, Leading(s, "0123456789", max))]

\* str::trim_start: the characters with the Unicode property White_Space are
\* trimmed; the string holds the ones a TLA+ string can hold: space, tab, line
\* feed, carriage return, form feed, vertical tab (U+000B), no-break space
\* (U+00A0), next line (U+0085) and ogham space mark (U+1680)
trim_start(s) == Rest(s, Leading(s, " \t\n\r\f  ", Len(s)))

\* chrono scan::short_weekday and scan::short_month0: the index in `names` of
\* the three letters `s` starts with, compared without case; 0 if none
short_name(s, names) ==
    IF Len(s) >= 3
       /\ \E i \in DOMAIN names : names[i] = to_ascii_lowercase(SubSeq(s, 1, 3))
    THEN CHOOSE i \in DOMAIN names : names[i] = to_ascii_lowercase(SubSeq(s, 1, 3))
    ELSE 0

\* chrono Parsed, with the text left to read; `ok` is false once an item
\* could not be read
Parsed(s) ==
    [ok |-> TRUE, s |-> s, weekday |-> 0, day |-> 0, month |-> 0, year |-> 0,
     hour |-> 0, minute |-> 0, second |-> 0, offset |-> 0]

\* chrono scan::space: at least one whitespace character
space(p) ==
    IF p.ok /\ trim_start(p.s) # p.s
    THEN [p EXCEPT !.s = trim_start(p.s)]
    ELSE [p EXCEPT !.ok = FALSE]

\* chrono scan::char
char(p, ch) ==
    IF p.ok /\ p.s # "" /\ Ch(p.s, 1) = ch
    THEN [p EXCEPT !.s = Rest(p.s, 1)]
    ELSE [p EXCEPT !.ok = FALSE]

\* [ day-of-week "," ]: a day name must be followed by a comma
day_of_week(p) ==
    IF short_name(p.s, <<"mon", "tue", "wed", "thu", "fri", "sat", "sun">>) = 0
    THEN p
    ELSE IF Len(p.s) >= 4 /\ Ch(p.s, 4) = ","
    THEN [p EXCEPT !.s = Rest(p.s, 4),
                   !.weekday = short_name(p.s, <<"mon", "tue", "wed", "thu",
                                                 "fri", "sat", "sun">>)]
    ELSE [p EXCEPT !.ok = FALSE]

\* parsed.set_<field>(scan::number(s, min, max)): one numeric item of `min` to
\* `max` digits, which the setter takes if it lies in lo..hi
numeric(p, field, min, max, lo, hi) ==
    IF p.ok /\ number(p.s, min, max).ok /\ number(p.s, min, max).v \in lo..hi
    THEN [p EXCEPT ![field] = number(p.s, min, max).v, !.s = number(p.s, min, max).s]
    ELSE [p EXCEPT !.ok = FALSE]

month(p) ==
    IF p.ok /\ short_name(p.s, <<"jan", "feb", "mar", "apr", "may", "jun",
                                 "jul", "aug", "sep", "oct", "nov", "dec">>) # 0
    THEN [p EXCEPT !.s = Rest(p.s, 3),
                   !.month = short_name(p.s, <<"jan", "feb", "mar", "apr", "may", "jun",
                                               "jul", "aug", "sep", "oct", "nov", "dec">>)]
    ELSE [p EXCEPT !.ok = FALSE]

\* two-digit years are 2000..2049 and 1950..1999, three-digit years count
\* from 1900, longer ones are taken as written
year(p) ==
    IF p.ok /\ number(p.s, 2, Len(p.s)).ok
    THEN [p EXCEPT !.s = number(p.s, 2, Len(p.s)).s,
                   !.year = number(p.s, 2, Len(p.s)).v
                            + (CASE number(p.s, 2, Len(p.s)).len = 2
                                    /\ number(p.s, 2, Len(p.s)).v <= 49 -> 2000
                                 [] number(p.s, 2, Len(p.s)).len = 2
                                    /\ number(p.s, 2, Len(p.s)).v >= 50 -> 1900
                                 [] number(p.s, 2, Len(p.s)).len = 3 -> 1900
                                 [] OTHER -> 0)]
    ELSE [p EXCEPT !.ok = FALSE]

\* [ ":" second ]
second(p) ==
    IF p.ok /\ trim_start(p.s) # "" /\ Ch(trim_start(p.s), 1) = ":"
    THEN numeric([p EXCEPT !.s = Rest(trim_start(p.s), 1)], "second", 2, 2, 0, 60)
    ELSE p

\* the hours of the zone names of RFC 2822; a single letter other than j is
\* read as +0000, any other name is refused
zone_name(p, name) ==
    CASE name \in {"gmt", "ut"} -> [p EXCEPT !.offset = 0]
      [] name = "edt" -> [p EXCEPT !.offset = -4 * 3600]
      [] name \in {"est", "cdt"} -> [p EXCEPT !.offset = -5 * 3600]
      [] name \in {"cst", "mdt"} -> [p EXCEPT !.offset = -6 * 3600]
      [] name \in {"mst", "pdt"} -> [p EXCEPT !.offset = -7 * 3600]
      [] name = "pst" -> [p EXCEPT !.offset = -8 * 3600]
      [] Len(name) = 1 /\ name # "j" -> [p EXCEPT !.offset = 0]
      [] OTHER -> [p EXCEPT !.ok = FALSE]

\* chrono scan::timezone_offset_2822: a zone name, or a sign, two digits of
\* hours and two digits of minutes below 60
timezone_offset_2822(p) ==
    IF ~p.ok THEN p
    ELSE IF Leading(p.s, "abcdefghijklmnopqrstuvwxyzABCDEFGHIJKLMNOPQRSTUVWXYZ",
                    Len(p.s)) > 0
    THEN zone_name(
             [p EXCEPT !.s = Rest(p.s, Leading(p.s,
                  "abcdefghijklmnopqrstuvwxyzABCDEFGHIJKLMNOPQRSTUVWXYZ", Len(p.s)))],
             to_ascii_lowercase(SubSeq(p.s, 1, Leading(p.s,
                  "abcdefghijklmnopqrstuvwxyzABCDEFGHIJKLMNOPQRSTUVWXYZ", Len(p.s)))))
    ELSE IF /\ p.s # ""
            /\ Ch(p.s, 1) \in {"+", "-"}
            /\ number(Rest(p.s, 1), 2, 2).ok
            /\ number(Rest(p.s, 3), 2, 2).ok
            /\ number(Rest(p.s, 3), 2, 2).v < 60
    THEN [p EXCEPT !.s = Rest(p.s, 5),
                   !.offset = (IF Ch(p.s, 1) = "-" THEN -1 ELSE 1)
                              * (number(Rest(p.s, 1), 2, 2).v * 3600
                                 + number(Rest(p.s, 3), 2, 2).v * 60)]
    ELSE [p EXCEPT !.ok = FALSE]

RECURSIVE comment_end(_, _, _)
\* chrono scan::comment_2822 once the opening parenthesis is read: the length
\* of the comment that `s` ends, 0 if it is not closed; `depth` is the nesting
\* and `n` the bytes read so far
comment_end(s, depth, n) ==
    IF s = "" THEN 0
    ELSE IF Ch(s, 1) = ")" /\ depth = 1 THEN n + 1
    ELSE IF Ch(s, 1) = "\\"
    THEN (IF Len(s) >= 2 THEN comment_end(Rest(s, 2), depth, n + 2) ELSE 0)
    ELSE comment_end(Rest(s, 1),
                     CASE Ch(s, 1) = "(" -> depth + 1
                       [] Ch(s, 1) = ")" -> depth - 1
                       [] OTHER -> depth,
                     n + 1)

RECURSIVE comments(_)
\* `while let Ok(..) = scan::comment_2822(s)`: the text left after the
\* comments, each with the whitespace before it
comments(s) ==
    IF trim_start(s) # "" /\ Ch(trim_start(s), 1) = "("
       /\ comment_end(Rest(trim_start(s), 1), 1, 0) # 0
    THEN comments(Rest(trim_start(s), 1 + comment_end(Rest(trim_start(s), 1), 1, 0)))
    ELSE s

\* chrono format::parse_rfc2822:
\* [ day-of-week "," ] day month year hour ":" minute [ ":" second ] zone
\* and the comments after it
parse_rfc2822(s) ==
    [timezone_offset_2822(space(second(
         numeric(
             [char([numeric(space(year(space(month(space(
                        numeric([day_of_week(Parsed(trim_start(s)))
                                    EXCEPT !.s = trim_start(@)],
                                "day", 1, 2, 1, 31)))))),
                    "hour", 2, 2, 0, 23) EXCEPT !.s = trim_start(@)], ":")
                 EXCEPT !.s = trim_start(@)],
             "minute", 2, 2, 0, 59))))
        EXCEPT !.s = comments(@)]

days_in_month(y, m) ==
    CASE m = 2 -> (IF y % 4 = 0 /\ (y % 100 # 0 \/ y % 400 = 0) THEN 29 ELSE 28)
      [] m \in {4, 6, 9, 11} -> 30
      [] OTHER -> 31

\* days from 1970-01-01 to the date, in the proleptic Gregorian calendar
days_from_civil(y, m, d) ==
    365 * (y - 1970)
    + ((y - 1) \div 4 - (y - 1) \div 100 + (y - 1) \div 400)
    - (1969 \div 4 - 1969 \div 100 + 1969 \div 400)
    + (<<0, 31, 59, 90, 120, 151, 181, 212, 243, 273, 304, 334>>[m])
    + (IF m > 2 /\ days_in_month(y, 2) = 29 THEN 1 ELSE 0)
    + (d - 1)

\* the year and the month that the day `days` after 1970-01-01 falls in
civil_from_days(days) ==
    CHOOSE c \in [y : (1969 + days \div (IF days < 0 THEN 365 ELSE 366))
                      ..(1971 + days \div (IF days < 0 THEN 366 ELSE 365)),
                  m : 1..12] :
        /\ days_from_civil(c.y, c.m, 1) <= days
        /\ days < days_from_civil(c.y, c.m, 1) + days_in_month(c.y, c.m)

RECURSIVE decimal(_, _)
\* {:0width$}: `n` in decimal digits, zero-padded to `width`
decimal(n, width) ==
    IF n < 10 /\ width <= 1 THEN Ch("0123456789", n + 1)
    ELSE decimal(n \div 10, width - 1) \o Ch("0123456789", (n % 10) + 1)

\* DateTime<Utc>::to_rfc3339 of second `secs` of the day `days` after
\* 1970-01-01; `leap` shows second 60
to_rfc3339(days, secs, leap) ==
    (CASE civil_from_days(days).y < 0 -> "-" \o decimal(-civil_from_days(days).y, 4)
       [] civil_from_days(days).y > 9999 -> "+" \o decimal(civil_from_days(days).y, 5)
       [] OTHER -> decimal(civil_from_days(days).y, 4))
    \o "-" \o decimal(civil_from_days(days).m, 2)
    \o "-" \o decimal(days - days_from_civil(civil_from_days(days).y,
                                             civil_from_days(days).m, 1) + 1, 2)
    \o "T" \o decimal(secs \div 3600, 2)
    \o ":" \o decimal((secs % 3600) \div 60, 2)
    \o ":" \o decimal(IF leap THEN 60 ELSE secs % 60, 2)
    \o "+00:00"

\* Parsed::to_datetime, then with_timezone(&Utc).to_rfc3339(): the date
\* exists and is not after chrono's last one (262142-12-31), also once taken
\* to UTC, the day name is the one of the date and the offset lies within a
\* day; a leap second counts as second 59 of the minute
to_datetime(p) ==
    IF /\ p.year <= 262142
       /\ p.day >= 1
       /\ p.day <= days_in_month(p.year, p.month)
       /\ p.hour <= 23
       /\ p.minute <= 59
       /\ p.second <= 60
       /\ p.offset > -86400
       /\ p.offset < 86400
       /\ p.weekday \in {0, ((days_from_civil(p.year, p.month, p.day) + 3) % 7) + 1}
       /\ days_from_civil(p.year, p.month, p.day)
          + (p.hour * 3600 + p.minute * 60
             + (IF p.second = 60 THEN 59 ELSE p.second) - p.offset) \div 86400
          <= days_from_civil(262142, 12, 31)
    THEN Ok(to_rfc3339(
                days_from_civil(p.year, p.month, p.day)
                + (p.hour * 3600 + p.minute * 60
                   + (IF p.second = 60 THEN 59 ELSE p.second) - p.offset) \div 86400,
                (p.hour * 3600 + p.minute * 60
                 + (IF p.second = 60 THEN 59 ELSE p.second) - p.offset) % 86400,
                p.second = 60))
    ELSE Err("invalid date")

\* DateTime::parse_from_rfc2822(..).map(|dt| dt.with_timezone(&Utc).to_rfc3339()):
\* the items are parsed, no text may be left after them, and they must
\* denote a date-time
parse_from_rfc2822(text) ==
    IF parse_rfc2822(text).ok /\ parse_rfc2822(text).s = ""
    THEN to_datetime(parse_rfc2822(text))
    ELSE Err("invalid date")

\* enum RestoreState
InProgress(expiry) == [state |-> "InProgress", expiry |-> expiry]

Available == [state |-> "Available", expiry |-> None]

Expired == [state |-> "Expired", expiry |-> None]

\* the decoder looking for an expiry date before the ongoing request
restore_state_of_expiry_first(value) ==
    IF expiry_text(value) # None
    THEN (IF IsOk(parse_from_rfc2822(Unwrap(expiry_text(value))))
          THEN InProgress(Some(parse_from_rfc2822(Unwrap(expiry_text(value)))[2]))
          ELSE Available)
    ELSE IF find(value, "ongoing-request=\"true\"") # 0
    THEN InProgress(None)
    ELSE IF find(value, "ongoing-request=\"false\"") # 0
    THEN Available
    ELSE Expired

\* parse_restore_state once the value has been lowercased
restore_state_of(value) ==
    IF find(value, "ongoing-request=\"true\"") # 0
    THEN InProgress(None)
    ELSE IF expiry_text(value) # None
    THEN (IF IsOk(parse_from_rfc2822(Unwrap(expiry_text(value))))
          THEN InProgress(Some(parse_from_rfc2822(Unwrap(expiry_text(value)))[2]))
          ELSE Available)
    ELSE IF find(value, "ongoing-request=\"false\"") # 0
    THEN Available
    ELSE Expired

parse_restore_state(raw) ==
    IF raw = None THEN None
    ELSE Some(restore_state_of(to_ascii_lowercase(Unwrap(raw))))

RECURSIVE page_objects(_)
\* `for object in response.contents()`: an entry that has a key becomes an
\* ObjectInfo whose restore_state is None, an entry without a key is left out
page_objects(contents) ==
    IF contents = <<>> THEN <<>>
    ELSE (IF IsSome(Head(contents).key)
          THEN <<[key |-> Unwrap(Head(contents).key),
                  storage_class |-> Head(contents).storage_class,
                  restore_state |-> None]>>
          ELSE <<>>)
         \o page_objects(Tail(contents))

\* request.send(): ListObjectsV2 keeps no cursor between requests, so a
\* request without a continuation token is answered from the start of the
\* listing and a request with the token of a page by that page; `pages` are
\* the responses the backend has, a token is the index of the page it names
send(pages, continuation_token) ==
    IF continuation_token = None THEN pages[1] ELSE pages[Unwrap(continuation_token)]

\* the loop never reaches `break`: the request about to be sent was sent
\* before and is answered as before
Diverges(objects) == <<"Diverges", objects>>

RECURSIVE list_objects_from(_, _, _, _)
\* the `loop` of list_objects at the top of an iteration; `sent` holds the
\* continuation tokens of the requests sent so far
list_objects_from(pages, continuation_token, objects, sent) ==
    IF continuation_token \in sent THEN Diverges(objects)
    ELSE IF ~IsOk(send(pages, continuation_token))
    THEN send(pages, continuation_token)
    ELSE IF send(pages, continuation_token)[2].is_truncated = Some(TRUE)
    THEN list_objects_from(
             pages,
             send(pages, continuation_token)[2].next_continuation_token,
             objects \o page_objects(send(pages, continuation_token)[2].contents),
             sent \cup {continuation_token})
    ELSE Ok(objects \o page_objects(send(pages, continuation_token)[2].contents))

\* S3Service::list_objects(bucket, None)
list_objects(pages) == list_objects_from(pages, None, <<>>, {})

\* S3Service::refresh_object: `head` is the outcome of the HeadObject call
refresh_object(key, head) ==
    IF ~IsOk(head) THEN head
    ELSE Ok([key |-> key,
             storage_class |-> head[2].storage_class,
             restore_state |-> parse_restore_state(head[2].restore)])

\* S3Service::transition_storage_class: `outcome` is the outcome of CopyObject
transition_storage_class(target, outcome) ==
    IF ~to_sdk_is_some(target)
    THEN Err(LocalError("target storage class is not supported via API"))
    ELSE outcome

(***************************************************************************)
(* tui/mod.rs                                                              *)
(*                                                                         *)
(* A function that takes `app`, `s3` and `policy_store` works on a context *)
(* c: the app, the calls made on s3 so far while handling the event, the   *)
(* policy store's collection, and the function's return value.             *)
(***************************************************************************)
Ctx(a, rq, st, r) == [app |-> a, reqs |-> rq, store |-> st, res |-> r]

\* return Ok(v)
Return(c, v) == [c EXCEPT !.res = Ok(v)]

\* return Err(e)
Fail(c, e) == [c EXCEPT !.res = Err(e)]

\* app.push_status(msg)
Status(c, msg) == [c EXCEPT !.app = push_status(c.app, msg)]

\* one call of an S3Service method, as the backend observes it; `at` is the
\* number of status messages pushed before the call was made
Sent(c, op, bucket, key, days, tier, result) ==
    [c EXCEPT !.reqs = Append(@, [op |-> op, bucket |-> bucket, key |-> key,
                                  days |-> days, tier |-> tier, ok |-> IsOk(result),
                                  at |-> Len(c.app.pushed)])]

\* `f(..)?;` followed by the rest of the caller: r is what f left behind; an
\* error is passed on, and so is a call that never returns
Try(r, v) == IF IsOk(r.res) THEN Return(r, v) ELSE r

\* `if let Err(err) = f(..) { app.push_status(&format!(text, err)) }`
OrStatus(r, text) ==
    IF r.res[1] = "Err" THEN Status(r, <<text, r.res[2]>>) ELSE r

\* target_count that counts every listed row when no mask is active
target_count_rows(a) ==
    IF IsSome(a.active_mask) THEN Len(a.filtered_objects)
    ELSE Len(a.objects)

target_count(a) ==
    IF IsSome(a.active_mask) THEN Len(a.filtered_objects)
    ELSE IF a.selected_object < Len(a.objects) THEN 1
    ELSE 0

\* target_keys that takes the selected row also when a mask is active
target_keys_selected_row(a) ==
    IF Get(active_objects(a), a.selected_object) # None
    THEN <<Unwrap(Get(active_objects(a), a.selected_object)).key>>
    ELSE <<>>

target_keys(a) ==
    IF IsSome(a.active_mask)
    THEN [i \in 1..Len(a.filtered_objects) |-> a.filtered_objects[i].key]
    ELSE IF Get(a.objects, a.selected_object) # None
         THEN <<Unwrap(Get(a.objects, a.selected_object)).key>>
         ELSE <<>>

\* the text shown for a failed restore request: a service error by its code
\* ("ServiceError" if it has none) and the friendly text of the two known codes
\* or its message ("no message provided" if it has none)
describe_restore_error(err) ==
    CASE err.kind = "ServiceError" ->
            LET code == IF err.code = None THEN "ServiceError" ELSE Unwrap(err.code)
                message == IF err.message = None
                           THEN "no message provided"
                           ELSE Unwrap(err.message)
            IN  IF code = "NoSuchKey"
                THEN code \o ": "
                     \o "object was not found (mask may target stale keys or bucket differs)"
                ELSE IF code = "InvalidObjectState"
                THEN code \o ": "
                     \o "object is already being restored or not eligible for this operation"
                ELSE code \o ": " \o message
      [] err.kind = "DispatchFailure" ->
            "network/dispatch failure: " \o Unwrap(err.message)
      [] err.kind = "TimeoutError" -> "request timed out; please retry"
      [] err.kind = "ResponseError" -> "response error: " \o Unwrap(err.message)
      [] OTHER -> Unwrap(err.message)

\* refresh_buckets once s3.list_buckets() has returned `buckets`
buckets_listed(c, buckets) ==
    IF IsOk(buckets)
    THEN Return([c EXCEPT !.app = set_buckets(c.app, buckets[2])], <<>>)
    ELSE Fail(c, buckets[2])

refresh_buckets(c, env) ==
    buckets_listed(Sent(c, "list_buckets", <<>>, <<>>, 0, "", list_buckets(env.buckets)),
                   list_buckets(env.buckets))

\* app.apply_mask(app.active_mask.clone())
reapply_mask(a) == apply_mask(a, a.active_mask)

\* load_objects_for_selection from `s3.list_objects(..).await?` on, `listed`
\* being what the call does: when it returns Ok the objects are taken over,
\* when it returns Err the error is passed on, and when it never returns
\* neither does load_objects_for_selection
objects_listed(c, bucket, listed) ==
    IF IsOk(listed)
    THEN Return(Status([c EXCEPT !.app = reapply_mask(
                                             set_objects(c.app, SortBy(listed[2], "key")))],
                       <<"Loaded objects for bucket {}", bucket>>),
                <<>>)
    ELSE IF listed[1] = "Err"
    THEN Fail(c, listed[2])
    ELSE [c EXCEPT !.res = Diverges(<<>>)]

load_objects_for_selection(c, env) ==
    IF IsSome(selected_bucket_name(c.app))
    THEN objects_listed(Sent(c, "list_objects", Unwrap(selected_bucket_name(c.app)),
                             <<>>, 0, "", env.objects),
                        Unwrap(selected_bucket_name(c.app)), env.objects)
    ELSE Return(c, <<>>)

RECURSIVE replace_first(_, _, _)
\* objects.iter_mut().find(|o| o.key == key) : the first object with the key
replace_first(objects, key, refreshed) ==
    IF objects = <<>> THEN <<>>
    ELSE IF Head(objects).key = key THEN <<refreshed>> \o Tail(objects)
    ELSE <<Head(objects)>> \o replace_first(Tail(objects), key, refreshed)

\* the filtered list left as it was before the object list changed
refilter_skip(a) == a

\* the filtered list recomputed under the active mask, if there is one
refilter(a) ==
    IF IsSome(a.active_mask)
    THEN [a EXCEPT !.filtered_objects = filter_objects(a.objects, Unwrap(a.active_mask))]
    ELSE a

\* the inspect that puts the selection back on the first row
object_refreshed_resets_row(c, key, refreshed) ==
    IF ~IsOk(refreshed) THEN Fail(c, refreshed[2])
    ELSE Return(Status([c EXCEPT !.app = refilter(
                           [c.app EXCEPT !.objects =
                               replace_first(c.app.objects, key, refreshed[2]),
                                         !.selected_object = 0])],
                       <<"Object metadata refreshed">>),
                <<>>)

\* refresh_selected_object once s3.refresh_object() has returned `refreshed`
object_refreshed(c, key, refreshed) ==
    IF ~IsOk(refreshed) THEN Fail(c, refreshed[2])
    ELSE Return(Status([c EXCEPT !.app = refilter(
                           [c.app EXCEPT !.objects =
                               replace_first(c.app.objects, key, refreshed[2])])],
                       <<"Object metadata refreshed">>),
                <<>>)

refresh_selected_object(c, env) ==
    IF selected_bucket_name(c.app) = None
    THEN Fail(c, LocalError("Select a bucket first"))
    ELSE IF selected_object(c.app) = None
    THEN Fail(c, LocalError("Select an object to inspect"))
    ELSE object_refreshed(Sent(c, "refresh_object", Unwrap(selected_bucket_name(c.app)),
                               Unwrap(selected_object(c.app)).key, 0, "", env.head),
                          Unwrap(selected_object(c.app)).key,
                          refresh_object(Unwrap(selected_object(c.app)).key, env.head))

\* the end of one round of the loop of execute_transition: `moved` is what
\* s3.transition_storage_class() returned
key_transitioned(c, key, target_class, moved) ==
    IF IsOk(moved)
    THEN Status(c, <<"Transitioned {key} to {}", key, target_class>>)
    ELSE Status(c, <<"Transition failed for {key}: {err:#}", key, moved[2]>>)

\* a round that reports a failed restore and goes on to the transition
\* instead of skipping the key
transition_key_no_skip(c, bucket, key, target_class, restore_first, restored, copied) ==
    key_transitioned(
        Sent(IF restore_first
             THEN (IF IsOk(restored)
                   THEN Sent(c, "request_restore", bucket, key, 7, "", restored)
                   ELSE Status(Sent(c, "request_restore", bucket, key, 7, "", restored),
                               <<"Restore failed for {key}: {detail}", key,
                                 describe_restore_error(restored[2])>>))
             ELSE c,
             "transition_storage_class", bucket, key, 0, target_class,
             transition_storage_class(target_class, copied)),
        key, target_class, transition_storage_class(target_class, copied))

\* a round that requests the restore whether or not restore_first is set
transition_key_always_restores(c, bucket, key, target_class, restore_first, restored, copied) ==
    IF ~IsOk(restored)
    THEN Status(Sent(c, "request_restore", bucket, key, 7, "", restored),
                <<"Restore failed for {key}: {detail}", key, describe_restore_error(restored[2])>>)
    ELSE key_transitioned(
             Sent(Sent(c, "request_restore", bucket, key, 7, "", restored),
                  "transition_storage_class", bucket, key, 0, target_class,
                  transition_storage_class(target_class, copied)),
             key, target_class, transition_storage_class(target_class, copied))

\* one round of the loop of execute_transition; `restored` and `copied` are
\* the outcomes the backend has for the two calls
transition_key(c, bucket, key, target_class, restore_first, restored, copied) ==
    IF restore_first /\ ~IsOk(restored)
    THEN Status(Sent(c, "request_restore", bucket, key, 7, "", restored),
                <<"Restore failed for {key}: {detail}", key, describe_restore_error(restored[2])>>)
    ELSE key_transitioned(
             Sent(IF restore_first
                  THEN Sent(c, "request_restore", bucket, key, 7, "", restored)
                  ELSE c,
                  "transition_storage_class", bucket, key, 0, target_class,
                  transition_storage_class(target_class, copied)),
             key, target_class, transition_storage_class(target_class, copied))

\* the loop leaving every key after the first to a later event
transition_keys_first_only(c, bucket, keys, i, target_class, restore_first, env) ==
    IF keys = <<>> THEN c
    ELSE transition_key(c, bucket, keys[1], target_class, restore_first,
                        env.restore[1], env.transition[1])

RECURSIVE transition_keys_reversed(_, _, _, _, _, _, _)
\* the loop walking the keys from the last to the first
transition_keys_reversed(c, bucket, keys, i, target_class, restore_first, env) ==
    IF i > Len(keys) THEN c
    ELSE transition_keys_reversed(
             transition_key(c, bucket, keys[Len(keys) + 1 - i], target_class,
                            restore_first, env.restore[Len(keys) + 1 - i],
                            env.transition[Len(keys) + 1 - i]),
             bucket, keys, i + 1, target_class, restore_first, env)

RECURSIVE transition_keys(_, _, _, _, _, _, _)
\* the `for key in keys` loop of execute_transition, from the i-th key on
transition_keys(c, bucket, keys, i, target_class, restore_first, env) ==
    IF i > Len(keys) THEN c
    ELSE transition_keys(
             transition_key(c, bucket, keys[i], target_class, restore_first,
                            env.restore[i], env.transition[i]),
             bucket, keys, i + 1, target_class, restore_first, env)

\* execute_transition that ends after the loop
execute_transition_no_relist(c, target_class, restore_first, env) ==
    IF selected_bucket_name(c.app) = None
    THEN Fail(c, LocalError("Select a bucket before transitioning"))
    ELSE IF target_keys(c.app) = <<>>
    THEN Return(Status(c, <<"No objects selected for transition">>), <<>>)
    ELSE Return(transition_keys(c, Unwrap(selected_bucket_name(c.app)), target_keys(c.app),
                                1, target_class, restore_first, env),
                <<>>)

execute_transition(c, target_class, restore_first, env) ==
    IF selected_bucket_name(c.app) = None
    THEN Fail(c, LocalError("Select a bucket before transitioning"))
    ELSE IF target_keys(c.app) = <<>>
    THEN Return(Status(c, <<"No objects selected for transition">>), <<>>)
    ELSE load_objects_for_selection(
             transition_keys(c, Unwrap(selected_bucket_name(c.app)), target_keys(c.app),
                             1, target_class, restore_first, env),
             env)

\* a round that sends the restore request a second time when it failed
restore_key_retry(c, bucket, key, days, restored) ==
    Status(IF IsOk(restored)
           THEN Sent(c, "request_restore", bucket, key, days, "", restored)
           ELSE Sent(Sent(c, "request_restore", bucket, key, days, "", restored),
                     "request_restore", bucket, key, days, "", restored),
           IF IsOk(restored)
           THEN <<"Restore requested for {key}", key>>
           ELSE <<"Restore failed for {key}: {detail}", key, describe_restore_error(restored[2])>>)

\* one round of the loop of execute_restore
restore_key(c, bucket, key, days, restored) ==
    Status(Sent(c, "request_restore", bucket, key, days, "", restored),
           IF IsOk(restored)
           THEN <<"Restore requested for {key}", key>>
           ELSE <<"Restore failed for {key}: {detail}", key, describe_restore_error(restored[2])>>)

RECURSIVE restore_keys_stop_on_failure(_, _, _, _, _, _)
\* the loop ending at the first key whose restore fails
restore_keys_stop_on_failure(c, bucket, keys, i, days, env) ==
    IF i > Len(keys) THEN c
    ELSE IF ~IsOk(env.restore[i])
    THEN restore_key(c, bucket, keys[i], days, env.restore[i])
    ELSE restore_keys_stop_on_failure(restore_key(c, bucket, keys[i], days, env.restore[i]),
                                      bucket, keys, i + 1, days, env)

RECURSIVE restore_keys(_, _, _, _, _, _)
\* the `for key in target_keys(app)` loop of execute_restore, from the i-th key on
restore_keys(c, bucket, keys, i, days, env) ==
    IF i > Len(keys) THEN c
    ELSE restore_keys(restore_key(c, bucket, keys[i], days, env.restore[i]),
                      bucket, keys, i + 1, days, env)

execute_restore(c, days, env) ==
    IF selected_bucket_name(c.app) = None
    THEN Fail(c, LocalError("Select a bucket before restoring"))
    ELSE Return(restore_keys(c, Unwrap(selected_bucket_name(c.app)), target_keys(c.app),
                             1, days, env),
                <<>>)

\* save_policy once store.add(policy) has returned
policy_added(c, added) ==
    IF ~IsOk(added.res)
    THEN Fail([c EXCEPT !.store = added.store], added.res[2])
    ELSE Return(Status([c EXCEPT !.store = added.store,
                                 !.app.policies = added.store],
                       <<"Policy saved">>),
                <<>>)

\* save_policy that leaves out a policy the store already holds
save_policy_dedup(c, target_class, env) ==
    IF selected_bucket_name(c.app) = None
    THEN Fail(c, LocalError("Select a bucket before saving policy"))
    ELSE IF c.app.active_mask = None
    THEN Fail(c, LocalError("Apply a mask before saving policy"))
    ELSE IF \E i \in 1..Len(c.store) :
                c.store[i] = MigrationPolicy_new(Unwrap(selected_bucket_name(c.app)),
                                                 Unwrap(c.app.active_mask), target_class,
                                                 FALSE, None)
    THEN policy_added(c, [store |-> c.store, res |-> env.store])
    ELSE policy_added(c, PolicyStore_add(c.store,
                             MigrationPolicy_new(Unwrap(selected_bucket_name(c.app)),
                                                 Unwrap(c.app.active_mask), target_class,
                                                 FALSE, None),
                             env.store))

save_policy(c, target_class, env) ==
    IF selected_bucket_name(c.app) = None
    THEN Fail(c, LocalError("Select a bucket before saving policy"))
    ELSE IF c.app.active_mask = None
    THEN Fail(c, LocalError("Apply a mask before saving policy"))
    ELSE policy_added(c, PolicyStore_add(c.store,
                             MigrationPolicy_new(Unwrap(selected_bucket_name(c.app)),
                                                 Unwrap(c.app.active_mask), target_class,
                                                 FALSE, None),
                             env.store))

\* enum PendingAction (app.rs); a field a variant does not carry holds a default
PendingAction_Transition(target_class, restore_first) ==
    [kind |-> "Transition", target_class |-> target_class,
     restore_first |-> restore_first, days |-> 0]

PendingAction_Restore(days) ==
    [kind |-> "Restore", target_class |-> "", restore_first |-> FALSE, days |-> days]

PendingAction_SavePolicy(target_class) ==
    [kind |-> "SavePolicy", target_class |-> target_class,
     restore_first |-> FALSE, days |-> 0]

\* begin_storage_selection that records the intent before it validates
begin_storage_selection_intent_first(c, intent) ==
    IF selected_bucket_name(c.app) = None
    THEN Fail([c EXCEPT !.app.storage_intent = intent], LocalError("Select a bucket first"))
    ELSE IF intent = "Transition" /\ target_count(c.app) = 0
    THEN Fail([c EXCEPT !.app.storage_intent = intent],
              LocalError("Select at least one object (mask or row)"))
    ELSE IF intent = "SavePolicy" /\ c.app.active_mask = None
    THEN Fail([c EXCEPT !.app.storage_intent = intent],
              LocalError("Apply a mask before saving a policy"))
    ELSE Return([c EXCEPT !.app.storage_intent = intent,
                          !.app.storage_class_cursor = 0,
                          !.app.mode = "SelectingStorageClass"],
                <<>>)

\* begin_storage_selection without the check for an active mask
begin_storage_selection_no_mask_check(c, intent) ==
    IF selected_bucket_name(c.app) = None
    THEN Fail(c, LocalError("Select a bucket first"))
    ELSE IF intent = "Transition" /\ target_count(c.app) = 0
    THEN Fail(c, LocalError("Select at least one object (mask or row)"))
    ELSE Return([c EXCEPT !.app.storage_intent = intent,
                          !.app.storage_class_cursor = 0,
                          !.app.mode = "SelectingStorageClass"],
                <<>>)

begin_storage_selection(c, intent) ==
    IF selected_bucket_name(c.app) = None
    THEN Fail(c, LocalError("Select a bucket first"))
    ELSE IF intent = "Transition" /\ target_count(c.app) = 0
    THEN Fail(c, LocalError("Select at least one object (mask or row)"))
    ELSE IF intent = "SavePolicy" /\ c.app.active_mask = None
    THEN Fail(c, LocalError("Apply a mask before saving a policy"))
    ELSE Return([c EXCEPT !.app.storage_intent = intent,
                          !.app.storage_class_cursor = 0,
                          !.app.mode = "SelectingStorageClass"],
                <<>>)

initiate_restore_flow(c) ==
    IF selected_bucket_name(c.app) = None \/ target_count(c.app) = 0
    THEN Fail(c, LocalError("Select objects to restore first"))
    ELSE Return(Status([c EXCEPT !.app.pending_action = Some(PendingAction_Restore(7)),
                                 !.app.mode = "Confirming"],
                       <<"Confirm restore request (Enter to proceed, Esc to cancel)">>),
                <<>>)

\* the clamping without the upper limit
Clamp_no_upper(idx, len) == IF idx < 0 THEN 0 ELSE idx

Clamp(idx, len) == IF idx < 0 THEN 0 ELSE IF idx >= len THEN len - 1 ELSE idx

move_selection(a, delta) ==
    CASE a.active_pane = "Buckets" ->
            IF a.buckets = <<>> THEN a
            ELSE [a EXCEPT !.selected_bucket = Clamp(a.selected_bucket + delta, Len(a.buckets))]
      [] a.active_pane = "Objects" ->
            IF Len(active_objects(a)) = 0 THEN a
            ELSE [a EXCEPT !.selected_object =
                     Clamp(a.selected_object + delta, Len(active_objects(a)))]
      [] OTHER -> a

jump_selection(a, start) ==
    CASE a.active_pane = "Buckets" ->
            IF a.buckets # <<>>
            THEN [a EXCEPT !.selected_bucket = IF start THEN 0 ELSE Len(a.buckets) - 1]
            ELSE a
      [] a.active_pane = "Objects" ->
            IF active_objects(a) # <<>>
            THEN [a EXCEPT !.selected_object =
                     IF start THEN 0 ELSE Len(active_objects(a)) - 1]
            ELSE a
      [] OTHER -> a

\* crossterm KeyEvent: code, the character of KeyCode::Char, the CONTROL
\* modifier, and whether the event is a key press
Key(code) == [code |-> code, ch |-> "", ctrl |-> FALSE, kind |-> "Press"]

Char(ch) == [code |-> "Char", ch |-> ch, ctrl |-> FALSE, kind |-> "Press"]

IsChar(key, ch) == key.code = "Char" /\ key.ch = ch

\* the match on the action taken out of app.pending_action
execute_pending(action, c, env) ==
    IF action = None THEN Return(c, <<>>)
    ELSE CASE Unwrap(action).kind = "Transition" ->
                execute_transition(c, Unwrap(action).target_class,
                                   Unwrap(action).restore_first, env)
           [] Unwrap(action).kind = "Restore" ->
                execute_restore(c, Unwrap(action).days, env)
           [] Unwrap(action).kind = "SavePolicy" ->
                save_policy(c, Unwrap(action).target_class, env)

\* `execute_..(..)?;` and then `app.set_mode(AppMode::Browsing)`
then_browsing(r) ==
    IF IsOk(r.res) THEN [r EXCEPT !.app.mode = "Browsing"] ELSE r

\* the 'o' arm switching restore_first on instead of flipping it
toggle_restore_first_on(c) ==
    IF c.app.pending_action # None /\ Unwrap(c.app.pending_action).kind = "Transition"
    THEN Status([c EXCEPT !.app.pending_action[1].restore_first = TRUE],
                <<"Will request restore before transition">>)
    ELSE c

\* the KeyCode::Char('o') arm of handle_confirmation_keys
toggle_restore_first(c) ==
    IF c.app.pending_action # None /\ Unwrap(c.app.pending_action).kind = "Transition"
    THEN Status([c EXCEPT !.app.pending_action[1].restore_first = ~@],
                IF ~Unwrap(c.app.pending_action).restore_first
                THEN <<"Will request restore before transition">>
                ELSE <<"Restore before transition disabled">>)
    ELSE c

\* handle_confirmation_keys that reads the pending action in place and clears
\* it only after the action has been executed
handle_confirmation_keys_peek(key, c, env) ==
    CASE key.code = "Esc" \/ IsChar(key, "n") ->
            Return(Status([c EXCEPT !.app.pending_action = None, !.app.mode = "Browsing"],
                          <<"Cancelled">>),
                   <<>>)
      [] key.code = "Enter" \/ IsChar(key, "y") ->
            [then_browsing(execute_pending(c.app.pending_action, c, env))
                EXCEPT !.app.pending_action =
                    IF IsOk(execute_pending(c.app.pending_action, c, env).res)
                    THEN None ELSE @]
      [] IsChar(key, "o") -> Return(toggle_restore_first(c), <<>>)
      [] OTHER -> Return(c, <<>>)

handle_confirmation_keys(key, c, env) ==
    CASE key.code = "Esc" \/ IsChar(key, "n") ->
            Return(Status([c EXCEPT !.app.pending_action = None, !.app.mode = "Browsing"],
                          <<"Cancelled">>),
                   <<>>)
      [] key.code = "Enter" \/ IsChar(key, "y") ->
            then_browsing(execute_pending(c.app.pending_action,
                                          [c EXCEPT !.app.pending_action = None], env))
      [] IsChar(key, "o") -> Return(toggle_restore_first(c), <<>>)
      [] OTHER -> Return(c, <<>>)

\* String::pop
Pop(s) == IF s = <<>> THEN s ELSE SubSeq(s, 1, Len(s) - 1)

\* the ObjectMask { .. } built from the draft
draft_mask(a) ==
    [name |-> a.mask_draft.name,
     pattern |-> a.mask_draft.pattern,
     kind |-> a.mask_draft.kind,
     case_sensitive |-> a.mask_draft.case_sensitive]

\* the KeyCode::Enter arm without the check for an empty pattern
confirm_mask_accept_empty(a) ==
    set_mode(apply_mask(a, Some(draft_mask(a))), "Browsing")

\* the KeyCode::Enter arm of handle_mask_editor_keys
confirm_mask(a) ==
    IF a.mask_draft.pattern = <<>>
    THEN push_status(a, <<"Mask pattern cannot be empty">>)
    ELSE set_mode(apply_mask(a, Some(draft_mask(a))), "Browsing")

handle_mask_editor_keys(key, a) ==
    CASE key.code = "Esc" ->
            push_status(set_mode(a, "Browsing"), <<"Mask edit cancelled">>)
      [] key.code = "Enter" -> confirm_mask(a)
      [] key.code = "Tab" -> next_mask_field(a)
      [] key.code = "BackTab" -> previous_mask_field(a)
      [] key.code = "Backspace" ->
            (CASE a.mask_field = "Name" -> [a EXCEPT !.mask_draft.name = Pop(@)]
               [] a.mask_field = "Pattern" -> [a EXCEPT !.mask_draft.pattern = Pop(@)]
               [] OTHER -> a)
      [] key.code = "Left" ->
            IF a.mask_field = "Mode" THEN cycle_mask_kind_backwards(a) ELSE a
      [] key.code = "Right" ->
            IF a.mask_field = "Mode" THEN cycle_mask_kind(a) ELSE a
      [] IsChar(key, " ") ->
            (CASE a.mask_field = "Mode" -> cycle_mask_kind(a)
               [] a.mask_field = "Case" -> toggle_mask_case(a)
               [] a.mask_field = "Name" -> [a EXCEPT !.mask_draft.name = Append(@, " ")]
               [] a.mask_field = "Pattern" ->
                     [a EXCEPT !.mask_draft.pattern = Append(@, " ")])
      [] IsChar(key, "c") -> focus_mask_field(toggle_mask_case(a), "Case")
      [] key.code = "Char" /\ key.ch \notin {" ", "c"} ->
            (CASE a.mask_field = "Name" -> [a EXCEPT !.mask_draft.name = Append(@, key.ch)]
               [] a.mask_field = "Pattern" ->
                     [a EXCEPT !.mask_draft.pattern = Append(@, key.ch)]
               [] OTHER -> a)
      [] OTHER -> a

\* the Enter arm creating a Transition whatever the intent
confirm_storage_class_always_transition(a, selected) ==
    IF selected = None THEN a
    ELSE push_status([a EXCEPT !.pending_action =
                                  Some(PendingAction_Transition(Unwrap(selected), FALSE)),
                               !.mode = "Confirming"],
                     <<"Confirm transition to {} (press Enter to confirm)",
                       Unwrap(selected)>>)

\* the KeyCode::Enter arm of handle_storage_class_selector
confirm_storage_class(a, selected) ==
    IF selected = None THEN a
    ELSE IF a.storage_intent = "Transition"
    THEN push_status([a EXCEPT !.pending_action =
                                  Some(PendingAction_Transition(Unwrap(selected), FALSE)),
                               !.mode = "Confirming"],
                     <<"Confirm transition to {} (press Enter to confirm)",
                       Unwrap(selected)>>)
    ELSE push_status([a EXCEPT !.pending_action =
                                  Some(PendingAction_SavePolicy(Unwrap(selected))),
                               !.mode = "Confirming"],
                     <<"Confirm saving policy">>)

\* the selector whose Up and Down arms move the selected object row as well
handle_storage_class_selector_moves_rows(key, a) ==
    CASE key.code = "Esc" -> set_mode(a, "Browsing")
      [] key.code = "Up" ->
            IF a.storage_class_cursor > 0
            THEN [a EXCEPT !.storage_class_cursor = @ - 1,
                           !.selected_object = IF @ > 0 THEN @ - 1 ELSE @]
            ELSE a
      [] key.code = "Down" ->
            IF a.storage_class_cursor + 1 < Len(selectable)
            THEN [a EXCEPT !.storage_class_cursor = @ + 1,
                           !.selected_object = IF @ + 1 < Len(active_objects(a))
                                               THEN @ + 1 ELSE @]
            ELSE a
      [] key.code = "Enter" ->
            confirm_storage_class(a, Get(selectable, a.storage_class_cursor))
      [] OTHER -> a

\* the selector whose Down arm moves the cursor past the last tier
handle_storage_class_selector_unbounded(key, a) ==
    CASE key.code = "Esc" -> set_mode(a, "Browsing")
      [] key.code = "Up" ->
            IF a.storage_class_cursor > 0
            THEN [a EXCEPT !.storage_class_cursor = @ - 1]
            ELSE a
      [] key.code = "Down" -> [a EXCEPT !.storage_class_cursor = @ + 1]
      [] key.code = "Enter" ->
            confirm_storage_class(a, Get(selectable, a.storage_class_cursor))
      [] OTHER -> a

handle_storage_class_selector(key, a) ==
    CASE key.code = "Esc" -> set_mode(a, "Browsing")
      [] key.code = "Up" ->
            IF a.storage_class_cursor > 0
            THEN [a EXCEPT !.storage_class_cursor = @ - 1]
            ELSE a
      [] key.code = "Down" ->
            IF a.storage_class_cursor + 1 < Len(selectable)
            THEN [a EXCEPT !.storage_class_cursor = @ + 1]
            ELSE a
      [] key.code = "Enter" ->
            confirm_storage_class(a, Get(selectable, a.storage_class_cursor))
      [] OTHER -> a

\* the KeyCode::Char('p') arm of handle_key_event: r is what
\* begin_storage_selection left behind
save_policy_begun(r) ==
    IF IsOk(r.res)
    THEN Status(r, <<"Select target storage class for policy">>)
    ELSE Status(r, <<"Cannot save policy: {err:#}", r.res[2]>>)

\* a change of the app alone
OnApp(c, a) == [c EXCEPT !.app = a]

\* the `match key.code` of handle_key_event that Browsing mode falls through to
handle_browsing_keys(key, c, env) ==
    CASE IsChar(key, "q") -> Return(c, TRUE)
      [] key.code = "Tab" -> Return(OnApp(c, next_pane(c.app)), FALSE)
      [] key.code = "BackTab" -> Return(OnApp(c, previous_pane(c.app)), FALSE)
      [] key.code = "Up" -> Return(OnApp(c, move_selection(c.app, -1)), FALSE)
      [] key.code = "Down" -> Return(OnApp(c, move_selection(c.app, 1)), FALSE)
      [] key.code = "PageUp" -> Return(OnApp(c, move_selection(c.app, -5)), FALSE)
      [] key.code = "PageDown" -> Return(OnApp(c, move_selection(c.app, 5)), FALSE)
      [] key.code = "Home" -> Return(OnApp(c, jump_selection(c.app, TRUE)), FALSE)
      [] key.code = "End" -> Return(OnApp(c, jump_selection(c.app, FALSE)), FALSE)
      [] IsChar(key, "m") ->
            Return(Status(OnApp(c, focus_mask_field(set_mode(c.app, "EditingMask"),
                                                    "Pattern")),
                          <<"Mask editor active - Tab moves between fields, arrows/space adjust options, Enter applies">>),
                   FALSE)
      [] IsChar(key, "f") ->
            Return(OrStatus(refresh_buckets(Status(c, <<"Refreshing buckets...">>), env),
                            "Bucket refresh failed: {err:#}"),
                   FALSE)
      [] IsChar(key, "i") ->
            Return(OrStatus(refresh_selected_object(c, env), "Inspect failed: {err:#}"), FALSE)
      [] key.code = "Enter" ->
            IF c.app.active_pane = "Buckets"
            THEN Try(load_objects_for_selection(c, env), FALSE)
            ELSE Return(c, FALSE)
      [] IsChar(key, "s") ->
            Return(OrStatus(begin_storage_selection(c, "Transition"),
                            "Storage selection unavailable: {err:#}"),
                   FALSE)
      [] IsChar(key, "r") ->
            Return(OrStatus(initiate_restore_flow(c), "Cannot request restore: {err:#}"), FALSE)
      [] IsChar(key, "p") ->
            Return(save_policy_begun(begin_storage_selection(c, "SavePolicy")), FALSE)
      [] IsChar(key, "?") -> Return(OnApp(c, set_mode(c.app, "ShowingHelp")), FALSE)
      [] IsChar(key, "l") \/ IsChar(key, "L") ->
            IF c.app.mode = "ViewingLog"
            THEN Return(OnApp(c, set_mode(c.app, "Browsing")), FALSE)
            ELSE Return(OnApp(c, set_mode(c.app, "ViewingLog")), FALSE)
      [] key.code = "Esc" ->
            IF IsSome(c.app.active_mask)
            THEN Return(OnApp(c, apply_mask(c.app, None)), FALSE)
            ELSE Return(c, FALSE)
      [] OTHER -> Return(c, FALSE)

\* handle_key_event with the 'q' arm ahead of the dispatch on the mode
handle_key_event_quit_anywhere(key, c, env) ==
    IF key.kind # "Press" THEN Return(c, FALSE)
    ELSE IF IsChar(key, "c") /\ key.ctrl THEN Return(c, TRUE)
    ELSE IF IsChar(key, "q") THEN Return(c, TRUE)
    ELSE CASE c.app.mode = "ShowingHelp" ->
                IF key.code \in {"Esc", "Enter"} \/ IsChar(key, "?")
                THEN Return(OnApp(c, set_mode(c.app, "Browsing")), FALSE)
                ELSE Return(c, FALSE)
           [] c.app.mode = "ViewingLog" ->
                IF key.code \in {"Esc", "Enter"} \/ IsChar(key, "l") \/ IsChar(key, "L")
                THEN Return(OnApp(c, set_mode(c.app, "Browsing")), FALSE)
                ELSE Return(c, FALSE)
           [] c.app.mode = "EditingMask" ->
                Return(OnApp(c, handle_mask_editor_keys(key, c.app)), FALSE)
           [] c.app.mode = "SelectingStorageClass" ->
                Return(OnApp(c, handle_storage_class_selector(key, c.app)), FALSE)
           [] c.app.mode = "Confirming" ->
                Try(handle_confirmation_keys(key, c, env), FALSE)
           [] c.app.mode = "Browsing" -> handle_browsing_keys(key, c, env)

\* handle_key_event whose log view closes on 'l' only
handle_key_event_log_sticky(key, c, env) ==
    IF key.kind # "Press" THEN Return(c, FALSE)
    ELSE IF IsChar(key, "c") /\ key.ctrl THEN Return(c, TRUE)
    ELSE CASE c.app.mode = "ShowingHelp" ->
                IF key.code \in {"Esc", "Enter"} \/ IsChar(key, "?")
                THEN Return(OnApp(c, set_mode(c.app, "Browsing")), FALSE)
                ELSE Return(c, FALSE)
           [] c.app.mode = "ViewingLog" ->
                IF IsChar(key, "l") \/ IsChar(key, "L")
                THEN Return(OnApp(c, set_mode(c.app, "Browsing")), FALSE)
                ELSE Return(c, FALSE)
           [] c.app.mode = "EditingMask" ->
                Return(OnApp(c, handle_mask_editor_keys(key, c.app)), FALSE)
           [] c.app.mode = "SelectingStorageClass" ->
                Return(OnApp(c, handle_storage_class_selector(key, c.app)), FALSE)
           [] c.app.mode = "Confirming" ->
                Try(handle_confirmation_keys(key, c, env), FALSE)
           [] c.app.mode = "Browsing" -> handle_browsing_keys(key, c, env)

\* handle_key_event returns Ok(true) to end the loop, Ok(false) to go on
handle_key_event(key, c, env) ==
    IF key.kind # "Press" THEN Return(c, FALSE)
    ELSE IF IsChar(key, "c") /\ key.ctrl THEN Return(c, TRUE)
    ELSE CASE c.app.mode = "ShowingHelp" ->
                IF key.code \in {"Esc", "Enter"} \/ IsChar(key, "?")
                THEN Return(OnApp(c, set_mode(c.app, "Browsing")), FALSE)
                ELSE Return(c, FALSE)
           [] c.app.mode = "ViewingLog" ->
                IF key.code \in {"Esc", "Enter"} \/ IsChar(key, "l") \/ IsChar(key, "L")
                THEN Return(OnApp(c, set_mode(c.app, "Browsing")), FALSE)
                ELSE Return(c, FALSE)
           [] c.app.mode = "EditingMask" ->
                Return(OnApp(c, handle_mask_editor_keys(key, c.app)), FALSE)
           [] c.app.mode = "SelectingStorageClass" ->
                Return(OnApp(c, handle_storage_class_selector(key, c.app)), FALSE)
           [] c.app.mode = "Confirming" ->
                Try(handle_confirmation_keys(key, c, env), FALSE)
           [] c.app.mode = "Browsing" -> handle_browsing_keys(key, c, env)

\* the part of run() before the event loop
run_prelude(c, env) ==
    OrStatus(refresh_buckets(Status(c, <<"Loading buckets...">>), env),
             "Failed to load buckets: {err:#}")

(***************************************************************************)
(* The environment: key events, and the outcomes of the backend calls and  *)
(* of the policy file write that a handler meets.                          *)
(***************************************************************************)
CtrlC == [code |-> "Char", ch |-> "c", ctrl |-> TRUE, kind |-> "Press"]

Release(key) == [key EXCEPT !.kind = "Release"]

\* no key event handled yet
NoKey == [code |-> "", ch |-> "", ctrl |-> FALSE, kind |-> ""]

Codes == {"Esc", "Enter", "Tab", "BackTab", "Up", "Down", "PageUp", "PageDown",
          "Home", "End", "Backspace", "Left", "Right", "Delete"}

Chars == {"q", "m", "f", "i", "s", "r", "p", "?", "l", "L", "n", "y", "o", "c", " ",
          "a", "A"}

Keys == {Key(c) : c \in Codes} \cup {Char(c) : c \in Chars} \cup {CtrlC, Release(Char("q"))}

\* SdkError::ServiceError: the service may send no code and no message, so
\* both are Options
ServiceError(code, message) == [kind |-> "ServiceError", code |-> code, message |-> message]

InvalidObjectState ==
    ServiceError(Some("InvalidObjectState"), Some("restore already in progress"))

AccessDenied == ServiceError(Some("AccessDenied"), Some("Access Denied"))

TimeoutError == [kind |-> "TimeoutError", code |-> None, message |-> None]

IoError == [kind |-> "Io", code |-> None, message |-> Some("failed to write policy file")]

BucketA == <<"a">>

BucketB == <<"b">>

BucketC == <<"c">>

Object(key) == [key |-> key, storage_class |-> "Standard", restore_state |-> None]

\* a listing as the backend serves it
Listing3 == <<Object(<<"b", "a">>), Object(<<"a">>), Object(<<"A", "b">>)>>

ListBucketsOutcomes == {Ok(<<>>), Ok(<<BucketB, BucketA, BucketC>>), Err(AccessDenied)}

\* a ListObjectsV2 response
Page(contents, is_truncated, next_continuation_token) ==
    Ok([contents |-> contents, is_truncated |-> is_truncated,
        next_continuation_token |-> next_continuation_token])

Entry(key) == [key |-> Some(key), storage_class |-> "Standard"]

\* Listing3 served in two pages
Paged3 ==
    <<Page(<<Entry(<<"b", "a">>), Entry(<<"a">>)>>, Some(TRUE), Some(2)),
      Page(<<Entry(<<"A", "b">>)>>, Some(FALSE), None)>>

\* what list_objects does with the pages a backend serves; for a page that
\* is marked truncated and carries no token it never returns
ListObjectsOutcomes ==
    {list_objects(pages) : pages \in {<<Page(<<>>, None, None)>>,
                                      <<Page(<<Entry(<<"a">>)>>, Some(FALSE), None)>>,
                                      Paged3,
                                      <<Page(<<Entry(<<"a">>)>>, Some(TRUE), None)>>,
                                      <<Err(TimeoutError)>>}}

HeadObjectOutcomes ==
    {Ok([storage_class |-> "Glacier",
         restore |-> Some("ongoing-request=\"true\", expiry-date=\"Fri, 21 Dec 2012 00:00:00 GMT\"")]),
     Ok([storage_class |-> "Glacier", restore |-> None]),
     Err(AccessDenied)}

RestoreOutcomes == {Ok(<<>>), Err(InvalidObjectState), Err(TimeoutError)}

CopyOutcomes == {Ok(<<>>), Err(AccessDenied)}

StoreOutcomes == {Ok(<<>>), Err(IoError)}

\* every call succeeds; a listing serves Listing3
Env0 ==
    [buckets |-> Ok(<<BucketB, BucketA, BucketC>>),
     objects |-> Ok(Listing3),
     head |-> Ok([storage_class |-> "Glacier", restore |-> None]),
     restore |-> <<Ok(<<>>), Ok(<<>>), Ok(<<>>)>>,
     transition |-> <<Ok(<<>>), Ok(<<>>), Ok(<<>>)>>,
     store |-> Ok(<<>>)]

\* per-key outcomes for the first n keys of a batch
Outcomes(n, set) ==
    {[i \in 1..3 |-> IF i <= n THEN f[i] ELSE Ok(<<>>)] : f \in [1..n -> set]}

\* the outcomes that handling `key` in state `a` can meet
EnvFor(key, a) ==
    IF key.kind # "Press" \/ key.ctrl THEN {Env0}
    ELSE IF a.mode = "Browsing" /\ IsChar(key, "f")
    THEN {[Env0 EXCEPT !.buckets = b] : b \in ListBucketsOutcomes}
    ELSE IF a.mode = "Browsing" /\ key.code = "Enter"
    THEN {[Env0 EXCEPT !.objects = o] : o \in ListObjectsOutcomes}
    ELSE IF a.mode = "Browsing" /\ IsChar(key, "i")
    THEN {[Env0 EXCEPT !.head = h] : h \in HeadObjectOutcomes}
    ELSE IF a.mode = "Confirming" /\ (key.code = "Enter" \/ IsChar(key, "y"))
              /\ a.pending_action # None
    THEN LET action == Unwrap(a.pending_action)
             n == Len(target_keys(a))
         IN  CASE action.kind = "Transition" ->
                    {[Env0 EXCEPT !.restore = r, !.transition = t, !.objects = o] :
                        r \in (IF action.restore_first THEN Outcomes(n, RestoreOutcomes)
                               ELSE {Env0.restore}),
                        t \in Outcomes(n, CopyOutcomes),
                        o \in {Ok(Listing3), Err(TimeoutError)}}
               [] action.kind = "Restore" ->
                    {[Env0 EXCEPT !.restore = r] : r \in Outcomes(n, RestoreOutcomes)}
               [] action.kind = "SavePolicy" ->
                    {[Env0 EXCEPT !.store = o] : o \in StoreOutcomes}
    ELSE {Env0}

Ev(key) == [key |-> key, env |-> Env0]

EvWith(key, env) == [key |-> key, env |-> env]

\* scripted openings of a session: the operator loads a bucket, filters it,
\* and walks into a confirmation
Loaded == <<Ev(Key("Enter")), Ev(Key("Tab"))>>

Masked3 == Loaded \o <<Ev(Char("m")), Ev(Char("a")), Ev(Key("Tab")), Ev(Key("Right")),
                       Ev(Key("Right")), Ev(Key("Enter"))>>

Masked2 == Loaded \o <<Ev(Char("m")), Ev(Char("a")), Ev(Key("Enter"))>>

Masked0 == Loaded \o <<Ev(Char("m")), Ev(Char("q")), Ev(Key("Enter"))>>

\* the editor reopened on the Prefix mask "a", "(" typed after it and the
\* kind cycled to Regex
RegexDraft == Masked2 \o <<Ev(Char("m")), Ev(Char("(")), Ev(Key("Tab")), Ev(Key("Right")),
                           Ev(Key("Right")), Ev(Key("Right"))>>

Scripts ==
    {<<>>,
     Loaded,
     Masked3,
     Masked2,
     Masked0,
     Loaded \o <<Ev(Char("m")), Ev(Char("a"))>>,
     Loaded \o <<Ev(Char("s")), Ev(Key("Enter"))>>,
     Loaded \o <<Ev(Char("s")), Ev(Key("Down")), Ev(Key("Down")), Ev(Key("Down")),
                 Ev(Key("Down"))>>,
     Masked3 \o <<Ev(Char("s")), Ev(Key("Down")), Ev(Key("Enter"))>>,
     Masked3 \o <<Ev(Char("r"))>>,
     Masked2 \o <<Ev(Char("p")), Ev(Key("Enter"))>>,
     Masked2 \o <<Ev(Char("p")), Ev(Key("Enter")), Ev(Key("Enter"))>>,
     Masked2 \o <<Ev(Char("p")), Ev(Key("Enter")), Ev(Key("Enter")),
                  Ev(Char("p")), Ev(Key("Enter"))>>,
     RegexDraft,
     [i \in 1..20 |-> IF i % 2 = 1 THEN Ev(Char("m")) ELSE Ev(Key("Esc"))]}

\* a session: the outcome of the bucket listing at startup and a script
Sessions ==
    {[boot |-> b, script |-> <<>>] : b \in ListBucketsOutcomes}
    \cup {[boot |-> Env0.buckets, script |-> sc] : sc \in Scripts}

(***************************************************************************)
(* The state machine.  loop is "start" before run() enters event_loop,     *)
(* "running" inside it, "quit" after Ok(true) and "error" after an Err.    *)
(***************************************************************************)
PoliciesOnDisk == {<<>>}

Init ==
    /\ \E policies \in PoliciesOnDisk :
          /\ app = App_new(policies)
          /\ policy_store = policies
    /\ \E session \in Sessions : input = session
    /\ loop = "start"
    /\ reqs = <<>>
    /\ last = NoKey
    /\ nevents = 0

\* what handling an event leaves behind becomes the next state, once the
\* handler has returned: a handler that waits for a call that never returns
\* takes no step
Commit(r) ==
    /\ r.res[1] \in {"Ok", "Err"}
    /\ app' = r.app
    /\ policy_store' = r.store
    /\ reqs' = r.reqs
    /\ loop' = IF ~IsOk(r.res) THEN "error"
               ELSE IF r.res[2] THEN "quit"
               ELSE "running"

\* run(): the startup listing, then event_loop
Startup ==
    /\ loop = "start"
    /\ Commit(Return(run_prelude(Ctx(app, <<>>, policy_store, Ok(FALSE)),
                                 [Env0 EXCEPT !.buckets = input.boot]),
                     FALSE))
    /\ UNCHANGED <<last, input, nevents>>

\* the events the loop can read next: the script first, then any key
NextEvents ==
    IF input.script # <<>> THEN {Head(input.script)}
    ELSE IF nevents < MaxEvents
    THEN UNION {{EvWith(k, e) : e \in EnvFor(k, app)} : k \in Keys}
    ELSE {}

\* one iteration of event_loop that reads a key event
Handle(ev) ==
    /\ Commit(handle_key_event(ev.key, Ctx(app, <<>>, policy_store, Ok(FALSE)), ev.env))
    /\ last' = ev.key
    /\ input' = IF input.script # <<>>
                THEN [input EXCEPT !.script = Tail(@)]
                ELSE input
    /\ nevents' = IF input.script # <<>> THEN nevents ELSE nevents + 1

BrowsingKey ==
    /\ loop = "running" /\ app.mode = "Browsing"
    /\ \E ev \in NextEvents : Handle(ev)

EditingMaskKey ==
    /\ loop = "running" /\ app.mode = "EditingMask"
    /\ \E ev \in NextEvents : Handle(ev)

SelectingStorageClassKey ==
    /\ loop = "running" /\ app.mode = "SelectingStorageClass"
    /\ \E ev \in NextEvents : Handle(ev)

ConfirmingKey ==
    /\ loop = "running" /\ app.mode = "Confirming"
    /\ \E ev \in NextEvents : Handle(ev)

ShowingHelpKey ==
    /\ loop = "running" /\ app.mode = "ShowingHelp"
    /\ \E ev \in NextEvents : Handle(ev)

ViewingLogKey ==
    /\ loop = "running" /\ app.mode = "ViewingLog"
    /\ \E ev \in NextEvents : Handle(ev)

Next ==
    \/ Startup
    \/ BrowsingKey
    \/ EditingMaskKey
    \/ SelectingStorageClassKey
    \/ ConfirmingKey
    \/ ShowingHelpKey
    \/ ViewingLogKey

Spec == Init /\ [][Next]_vars

(***************************************************************************)
(* Properties.  In an action formula the unprimed variables are the state  *)
(* in which a key event arrives, last' is that key event, and the primed   *)
(* variables are what its handler leaves behind.                           *)
(***************************************************************************)
ConfirmKeys == {Key("Enter"), Char("y")}

CancelKeys == {Key("Esc"), Char("n")}

\* the loop handles one of `keys` in mode `mode`
Handled(mode, keys) ==
    /\ loop = "running"
    /\ app.mode = mode
    /\ last' \in keys
    /\ (nevents' # nevents \/ input' # input)

\* the messages the handler pushed
NewMessages == SubSeq(app'.pushed, Len(app.pushed) + 1, Len(app'.pushed))

PendingIs(a, kind) ==
    a.pending_action # None /\ Unwrap(a.pending_action).kind = kind

IsFailure(m) ==
    m[1] \in {"Restore failed for {key}: {detail}", "Transition failed for {key}: {err:#}"}

RequestsFor(rq, op, key) == {j \in 1..Len(rq) : rq[j].op = op /\ rq[j].key = key}

FailuresFor(msgs, key) == {j \in 1..Len(msgs) : IsFailure(msgs[j]) /\ msgs[j][2] = key}

\* C1: in every reachable state a pending action exists if and only if the
\* mode is Confirming.
C1_PendingIffConfirming ==
    (app.pending_action # None) <=> (app.mode = "Confirming")

\* C2: in a confirmed Transition batch with restore_first every target key
\* gets one restore request; a key whose restore fails gets no transition
\* request and exactly one failure message; a key whose restore succeeds gets
\* its transition request whatever happened to the other keys.  With three
\* keys of which only the second one's restore fails, exactly the first and
\* the third are transitioned and one failure message is reported.
C2_RestoreFailureSkipsOnlyThatKey ==
    [][(Handled("Confirming", ConfirmKeys) /\ PendingIs(app, "Transition")
            /\ Unwrap(app.pending_action).restore_first)
        => LET keys == target_keys(app)
               restoreFailed(k) ==
                   \E j \in RequestsFor(reqs', "request_restore", k) : ~reqs'[j].ok
               moved(k) == RequestsFor(reqs', "transition_storage_class", k)
           IN  /\ \A i \in 1..Len(keys) :
                    /\ Cardinality(RequestsFor(reqs', "request_restore", keys[i])) = 1
                    /\ restoreFailed(keys[i]) =>
                          /\ moved(keys[i]) = {}
                          /\ Cardinality(FailuresFor(NewMessages, keys[i])) = 1
                    /\ ~restoreFailed(keys[i]) => Cardinality(moved(keys[i])) = 1
               /\ (/\ Len(keys) = 3
                   /\ \A i \in 1..3 : restoreFailed(keys[i]) <=> i = 2
                   /\ \A j \in 1..Len(reqs') : reqs'[j].op = "transition_storage_class"
                                                  => reqs'[j].ok)
                  => /\ {k \in {keys[i] : i \in 1..3} : moved(k) # {}} = {keys[1], keys[3]}
                     /\ Cardinality({j \in 1..Len(NewMessages) :
                                        IsFailure(NewMessages[j])}) = 1]_vars

\* a restore-first batch over three keys has run, and only the restore of
\* the second key failed
C2_Witness ==
    /\ last \in ConfirmKeys
    /\ Len(reqs) = 6
    /\ [j \in 1..6 |-> reqs[j].op] =
          <<"request_restore", "transition_storage_class", "request_restore",
            "request_restore", "transition_storage_class", "list_objects">>
    /\ [j \in 1..5 |-> reqs[j].ok] = <<TRUE, TRUE, FALSE, TRUE, TRUE>>

\* C3: whenever a confirm event is handled in Confirming, the mode afterwards
\* is Browsing, whatever the outcome of the executed action.
C3_ConfirmReturnsToBrowsing ==
    [][Handled("Confirming", ConfirmKeys) => app'.mode = "Browsing"]_vars

\* C4: the event loop ends only through an explicit quit event, never with
\* an error out of a handler.
C4_LoopEndsOnlyByQuit ==
    \/ loop \in {"start", "running"}
    \/ loop = "quit" /\ last \in {CtrlC, Char("q")}

\* the precondition of the flow that `key` begins does not hold in `a`
PreconditionFails(a, key) ==
    LET noBucket == ~(a.selected_bucket < Len(a.buckets))
    IN  \/ key \in {Char("s"), Char("r")} /\ (noBucket \/ target_keys(a) = <<>>)
        \/ key = Char("p") /\ (noBucket \/ a.active_mask = None)

\* C6: begin-transition, begin-restore or begin-save-policy with a failed
\* precondition leaves the mode Browsing, no pending action, the storage
\* intent and the tier cursor as they were, makes no backend call and appends
\* exactly one status message.
C6_FailedPreconditionStaysLocal ==
    [][(Handled("Browsing", {Char("s"), Char("r"), Char("p")})
            /\ PreconditionFails(app, last'))
        => /\ app'.mode = "Browsing"
           /\ app'.pending_action = None
           /\ app'.storage_intent = app.storage_intent
           /\ app'.storage_class_cursor = app.storage_class_cursor
           /\ reqs' = <<>>
           /\ Len(NewMessages) = 1
           /\ app' = push_status(app, NewMessages[1])
           /\ loop' = "running"]_vars

\* begin-save-policy was refused for want of a mask
C6_Witness ==
    /\ last = Char("p")
    /\ app.mode = "Browsing"
    /\ app.pushed # <<>>
    /\ app.pushed[Len(app.pushed)] =
          <<"Cannot save policy: {err:#}", LocalError("Apply a mask before saving a policy")>>

\* C7: the policy store changes only by a confirmed SavePolicy action taken
\* while a bucket is selected and a mask is active, which appends one policy;
\* begin-save-policy without an active mask is refused with a message and
\* leaves the store and the visible policy list as they were.
C7_StoreNeedsActiveMask ==
    [][/\ policy_store' # policy_store =>
             /\ Handled("Confirming", ConfirmKeys)
             /\ PendingIs(app, "SavePolicy")
             /\ app.selected_bucket < Len(app.buckets)
             /\ app.active_mask # None
             /\ policy_store' = Append(policy_store,
                    MigrationPolicy_new(app.buckets[app.selected_bucket + 1].name,
                                        app.active_mask[1],
                                        Unwrap(app.pending_action).target_class,
                                        FALSE, None))
       /\ (Handled("Browsing", {Char("p")}) /\ app.active_mask = None) =>
             /\ policy_store' = policy_store
             /\ app'.policies = app.policies
             /\ app'.mode = "Browsing"
             /\ Len(NewMessages) = 1
             /\ NewMessages[1][1] = "Cannot save policy: {err:#}"]_vars

\* a policy has been saved
C7_Witness ==
    /\ policy_store # <<>>
    /\ last \in ConfirmKeys
    /\ app.pushed[Len(app.pushed)] = <<"Policy saved">>

\* C8: after a confirm or a cancel in Confirming, and after a cancel in
\* SelectingStorageClass, there is no pending action, also when the
\* confirmed action ended with an error.
C8_NoPendingAfterConfirmOrCancel ==
    [][(\/ Handled("Confirming", ConfirmKeys \cup CancelKeys)
        \/ Handled("SelectingStorageClass", {Key("Esc")}))
        => app'.pending_action = None]_vars

\* a confirmed action has ended with an error
C8_Witness ==
    loop = "error" /\ last \in ConfirmKeys /\ app.pending_action = None
        /\ app.mode = "Confirming"

\* the last n elements of s
LastN(s, n) == IF Len(s) <= n THEN s ELSE SubSeq(s, Len(s) - n + 1, Len(s))

\* C9: the status log never holds more than STATUS_LIMIT entries and is
\* always the last min(n, STATUS_LIMIT) of the n messages pushed, in push
\* order.
C9_LogIsLastPushed ==
    /\ Len(app.status) <= STATUS_LIMIT
    /\ app.status = LastN(app.pushed, STATUS_LIMIT)

\* the log is full and has evicted its oldest entries
C9_Witness ==
    Len(app.pushed) > STATUS_LIMIT + 1 /\ Len(app.status) = STATUS_LIMIT

\* C10: within a confirmed Transition or Restore batch the i-th message
\* pushed is the outcome of the i-th target key, every backend request for
\* a key is issued after the outcome messages of all earlier keys and before
\* its own, and the relisting and its messages come after all of them.
C10_MessagesInOperationOrder ==
    [][(Handled("Confirming", ConfirmKeys)
            /\ (PendingIs(app, "Transition") \/ PendingIs(app, "Restore")))
        => LET keys == target_keys(app)
               base == Len(app.pushed)
           IN  /\ Len(NewMessages) >= Len(keys)
               /\ \A i \in 1..Len(keys) :
                     /\ NewMessages[i][1] \in
                           {"Restore failed for {key}: {detail}",
                            "Transition failed for {key}: {err:#}",
                            "Transitioned {key} to {}", "Restore requested for {key}"}
                     /\ NewMessages[i][2] = keys[i]
                     /\ \A j \in 1..Len(reqs') :
                           reqs'[j].key = keys[i] => reqs'[j].at = base + i - 1
               /\ \A j \in 1..Len(reqs') :
                     /\ reqs'[j].op = "list_objects" => reqs'[j].at = base + Len(keys)
                     /\ j > 1 => reqs'[j].at >= reqs'[j - 1].at
               /\ \A i \in (Len(keys) + 1)..Len(NewMessages) :
                     NewMessages[i][1] \in
                        {"Mask '{}' matched {} objects", "Mask applied but matched no objects",
                         "Cleared mask filter", "Loaded objects for bucket {}"}]_vars

\* a Transition batch over three keys has been followed by the relisting
C10_Witness ==
    /\ last \in ConfirmKeys
    /\ Len(reqs) = 4
    /\ reqs[4].op = "list_objects" /\ reqs[4].ok
    /\ reqs[1].key # reqs[2].key /\ reqs[2].key # reqs[3].key
    /\ app.pushed[Len(app.pushed)][1] = "Loaded objects for bucket {}"

MaskKinds == {"Prefix", "Suffix", "Contains", "Regex"}

\* masks tried on the object list of every reachable state
RoundTripMasks ==
    {[name |-> UntitledMask, pattern |-> p, kind |-> k, case_sensitive |-> cs] :
        p \in {<<"a">>, <<"A", "b">>, <<"q">>}, k \in MaskKinds, cs \in BOOLEAN}

\* a is app `before` with a mask applied and cleared again
Unfiltered(before, a) ==
    /\ a.objects = before.objects
    /\ active_objects(a) = before.objects
    /\ a.active_mask = None
    /\ a.filtered_objects = <<>>

\* C11: applying any mask and then clearing it leaves the unfiltered object
\* list as it was, element for element, makes the active objects that list
\* again and leaves no active mask and an empty filtered list; in a session
\* confirming the mask editor never changes the unfiltered list and Esc in
\* Browsing with a mask active restores it as the active list.
C11_MaskRoundTrip ==
    /\ [](\A m \in RoundTripMasks :
             Unfiltered(app, apply_mask(apply_mask(app, Some(m)), None)))
    /\ [][/\ Handled("EditingMask", {Key("Enter")}) => app'.objects = app.objects
          /\ (Handled("Browsing", {Key("Esc")}) /\ app.active_mask # None)
                => Unfiltered(app, app')]_vars

\* a mask that hid an object has been applied and then cleared
C11_Witness ==
    /\ last = Key("Esc")
    /\ Len(app.pushed) >= 2
    /\ app.pushed[Len(app.pushed)] = <<"Cleared mask filter">>
    /\ app.pushed[Len(app.pushed) - 1] = <<"Mask '{}' matched {} objects", UntitledMask, 2>>
    /\ Len(app.objects) = 3
    /\ active_objects(app) = app.objects

\* C12: confirming the mask editor with kind Regex and a pattern that does
\* not compile leaves the active mask and the filtered list as they were.
C12_InvalidRegexNeverActive ==
    [][(Handled("EditingMask", {Key("Enter")})
            /\ app.mask_draft.kind = "Regex"
            /\ app.mask_draft.pattern # <<>>
            /\ ~regex_compiles(app.mask_draft.pattern))
        => /\ app'.active_mask = app.active_mask
           /\ app'.filtered_objects = app.filtered_objects]_vars

\* C13: an active mask never has an empty pattern; confirming the mask
\* editor with an empty draft pattern keeps the mode EditingMask, pushes one
\* validation message and leaves the active mask, the filtered list and the
\* selected object index as they were.
C13_ActivePatternNonEmpty ==
    /\ [](app.active_mask # None => Unwrap(app.active_mask).pattern # <<>>)
    /\ [][(Handled("EditingMask", {Key("Enter")}) /\ app.mask_draft.pattern = <<>>)
            => /\ app'.mode = "EditingMask"
               /\ NewMessages = <<<<"Mask pattern cannot be empty">>>>
               /\ app'.active_mask = app.active_mask
               /\ app'.filtered_objects = app.filtered_objects
               /\ app'.selected_object = app.selected_object]_vars

\* the editor has refused an empty pattern
C13_Witness ==
    /\ last = Key("Enter")
    /\ app.mode = "EditingMask"
    /\ app.mask_draft.pattern = <<>>
    /\ app.pushed # <<>>
    /\ app.pushed[Len(app.pushed)] = <<"Mask pattern cannot be empty">>

\* idx is a valid position in a list of length len, 0 in an empty list
InBounds(idx, len) == idx >= 0 /\ (IF len = 0 THEN idx = 0 ELSE idx < len)

Max(x, y) == IF x > y THEN x ELSE y

Min(x, y) == IF x < y THEN x ELSE y

MoveKeys == {Key("Up"), Key("Down"), Key("PageUp"), Key("PageDown")}

Delta(key) ==
    CASE key.code = "Up" -> -1
      [] key.code = "Down" -> 1
      [] key.code = "PageUp" -> -5
      [] key.code = "PageDown" -> 5

\* the position that a movement or a jump leaves in a list of length len
Target(key, idx, len) ==
    IF len = 0 THEN idx
    ELSE CASE key.code = "Home" -> 0
           [] key.code = "End" -> len - 1
           [] OTHER -> Max(0, Min(len - 1, idx + Delta(key)))

\* C14: in every reachable state the selected object index is within the
\* active object list and the selected bucket index within the bucket list
\* (0 when the list is empty); a movement clamps into [0, len-1], a jump goes
\* to the first or last position, and either changes nothing in an empty list
\* or in a pane that holds no list.
C14_SelectionInBounds ==
    /\ [](/\ InBounds(app.selected_object, Len(active_objects(app)))
          /\ InBounds(app.selected_bucket, Len(app.buckets)))
    /\ [][Handled("Browsing", MoveKeys \cup {Key("Home"), Key("End")})
            => app' = CASE app.active_pane = "Buckets" ->
                             [app EXCEPT !.selected_bucket =
                                 Target(last', @, Len(app.buckets))]
                        [] app.active_pane = "Objects" ->
                             [app EXCEPT !.selected_object =
                                 Target(last', @, Len(active_objects(app)))]
                        [] OTHER -> app]_vars

\* PageDown has been clamped to the last of three buckets
C14_Witness ==
    /\ last = Key("PageDown")
    /\ app.active_pane = "Buckets"
    /\ Len(app.buckets) = 3
    /\ app.selected_bucket = 2

\* C15: target_keys is the keys of the filtered list in list order when a
\* mask is active, and otherwise the one key at the selected object index of
\* the unfiltered list, or nothing when that index is out of range.
C15_TargetKeys ==
    target_keys(app) =
        IF app.active_mask # None
        THEN [i \in 1..Len(app.filtered_objects) |-> app.filtered_objects[i].key]
        ELSE IF app.selected_object < Len(app.objects)
        THEN <<app.objects[app.selected_object + 1].key>>
        ELSE <<>>

\* a mask selects two of three objects and the cursor is on the second
C15_Witness ==
    /\ app.active_mask # None
    /\ Len(app.objects) = 3
    /\ app.selected_object = 1
    /\ target_keys(app) = << <<"A", "b">>, <<"a">> >>

\* restore headers and the state each one decodes to
DecoderCases ==
    {[raw |-> None, state |-> None],
     [raw |-> Some("ongoing-request=\"true\""), state |-> Some(InProgress(None))],
     [raw |-> Some("ONGOING-REQUEST=\"TRUE\""), state |-> Some(InProgress(None))],
     [raw |-> Some("Ongoing-Request=\"True\""), state |-> Some(InProgress(None))],
     [raw |-> Some("ongoing-request=\"true\", expiry-date=\"Fri, 21 Dec 2012 00:00:00 GMT\""),
      state |-> Some(InProgress(None))],
     [raw |-> Some("expiry-date=\"Fri, 21 Dec 2012 00:00:00 GMT\", ongoing-request=\"true\""),
      state |-> Some(InProgress(None))],
     [raw |-> Some("ongoing-request=\"false\", expiry-date=\"Fri, 21 Dec 2012 00:00:00 GMT\""),
      state |-> Some(InProgress(Some("2012-12-21T00:00:00+00:00")))],
     [raw |-> Some("EXPIRY-DATE=\"Fri, 21 Dec 2012 00:00:00 GMT\""),
      state |-> Some(InProgress(Some("2012-12-21T00:00:00+00:00")))],
     [raw |-> Some("expiry-date=\"Fri, 21 Dec 2012 01:30:00 +0200\""),
      state |-> Some(InProgress(Some("2012-12-20T23:30:00+00:00")))],
     [raw |-> Some("ongoing-request=\"false\", expiry-date=\"Fri, 21 Dec 2012 00:00:00 GMT\""),
      state |-> Some(InProgress(Some("2012-12-21T00:00:00+00:00")))],
     [raw |-> Some("expiry-date=\"Fri, 21 Dec 2012 00:00:30 GMT (c)\""),
      state |-> Some(InProgress(Some("2012-12-21T00:00:30+00:00")))],
     [raw |-> Some("expiry-date=\"21 Dec 2012 00:00:00 GMT"),
      state |-> Some(InProgress(Some("2012-12-21T00:00:00+00:00")))],
     [raw |-> Some("ongoing-request=\"false\", expiry-date=\"Tomorrow\""),
      state |-> Some(Available)],
     [raw |-> Some("expiry-date=\"Sat, 21 Dec 2012 00:00:00 GMT\""),
      state |-> Some(Available)],
     [raw |-> Some("expiry-date=\"\""), state |-> Some(Available)],
     [raw |-> Some("ongoing-request=\"false\""), state |-> Some(Available)],
     [raw |-> Some("ONGOING-REQUEST=\"FALSE\""), state |-> Some(Available)],
     [raw |-> Some("ongoing-request=false"), state |-> Some(Expired)],
     [raw |-> Some("restored"), state |-> Some(Expired)],
     [raw |-> Some(""), state |-> Some(Expired)]}

\* C16: the decoder gives InProgress without expiry when the header holds
\* ongoing-request="true", also next to an expiry date; otherwise, when an
\* expiry date is present, InProgress with the date if it parses and
\* Available if not, also next to ongoing-request="false"; otherwise
\* Available for ongoing-request="false"; otherwise Expired; and no state for
\* an absent header.  Every object of the session holds what the decoder
\* made of the header served for it.
C16_DecoderPrecedence ==
    /\ (loop = "start" => \A c \in DecoderCases : parse_restore_state(c.raw) = c.state)
    /\ \A i \in 1..Len(app.objects) :
          app.objects[i].restore_state \in {None, Some(InProgress(None))}

\* an inspected object was served a header with both tokens
C16_Witness ==
    /\ last = Char("i")
    /\ Len(reqs) = 1 /\ reqs[1].op = "refresh_object" /\ reqs[1].ok
    /\ \E i \in 1..Len(app.objects) :
          /\ app.objects[i].key = reqs[1].key
          /\ app.objects[i].restore_state = Some(InProgress(None))

\* s is ascending in the byte order of its strings
Ascending(s) == \A i, j \in 1..Len(s) : i < j => ~StrLess(s[j], s[i])

\* C17: the bucket list is sorted ascending by name in every reachable
\* state, whatever order the backend serves (b, a, c is consumed as a, b, c),
\* and the unfiltered object list is sorted ascending by key.
C17_ListsSorted ==
    /\ Ascending([i \in 1..Len(app.buckets) |-> app.buckets[i].name])
    /\ Ascending([i \in 1..Len(app.objects) |-> app.objects[i].key])
    /\ list_buckets(Ok(<<BucketB, BucketA, BucketC>>)) =
          Ok(<<[name |-> BucketA], [name |-> BucketB], [name |-> BucketC]>>)

\* buckets served as b, a, c and objects served as ba, a, Ab are held sorted
C17_Witness ==
    /\ [i \in 1..Len(app.buckets) |-> app.buckets[i].name] = <<BucketA, BucketB, BucketC>>
    /\ [i \in 1..Len(app.objects) |-> app.objects[i].key] =
          << <<"A", "b">>, <<"a">>, <<"b", "a">> >>

\* the positions in rq of the requests of kind op
Requests(rq, op) == {j \in 1..Len(rq) : rq[j].op = op}

\* C18: a confirmed Transition batch over a non-empty target key set
\* re-fetches the listing of the selected bucket exactly once, as the last
\* request of the handler and after a request for every key, however many of
\* the per-key calls failed; with an empty target key set execute_transition
\* pushes the one message "No objects selected for transition" and issues no
\* request at all.
C18_RelistOnceAfterBatch ==
    /\ [][(Handled("Confirming", ConfirmKeys) /\ PendingIs(app, "Transition")
              /\ target_keys(app) # <<>>)
            => /\ Requests(reqs', "list_objects") = {Len(reqs')}
               /\ reqs'[Len(reqs')].bucket = app.buckets[app.selected_bucket + 1].name
               /\ \A i \in 1..Len(target_keys(app)) :
                     \E j \in 1..(Len(reqs') - 1) : reqs'[j].key = target_keys(app)[i]]_vars
    /\ []((target_keys(app) = <<>> /\ app.selected_bucket < Len(app.buckets))
            => \A rf \in BOOLEAN :
                  /\ execute_transition(Ctx(app, <<>>, policy_store, Ok(FALSE)),
                                        "Glacier", rf, Env0).reqs = <<>>
                  /\ execute_transition(Ctx(app, <<>>, policy_store, Ok(FALSE)),
                                        "Glacier", rf, Env0).res = Ok(<<>>)
                  /\ execute_transition(Ctx(app, <<>>, policy_store, Ok(FALSE)),
                                        "Glacier", rf, Env0).app =
                        push_status(app, <<"No objects selected for transition">>))

\* every copy of a batch over three keys failed and the listing was fetched
C18_Witness ==
    /\ last \in ConfirmKeys
    /\ Len(reqs) = 4
    /\ \A j \in 1..3 : reqs[j].op = "transition_storage_class" /\ ~reqs[j].ok
    /\ reqs[4].op = "list_objects"

\* C19: a confirmed Restore{days} issues exactly one restore request, with
\* that number of days, for every target key in list order and no other
\* request, pushes exactly one message per key, a success for a request that
\* succeeded and a failure for one that failed, and goes on after a failure.
C19_RestoreBatch ==
    [][(Handled("Confirming", ConfirmKeys) /\ PendingIs(app, "Restore"))
        => LET keys == target_keys(app)
           IN  /\ Len(reqs') = Len(keys)
               /\ Len(NewMessages) = Len(keys)
               /\ \A i \in 1..Len(keys) :
                     /\ reqs'[i].op = "request_restore"
                     /\ reqs'[i].key = keys[i]
                     /\ reqs'[i].days = Unwrap(app.pending_action).days
                     /\ reqs'[i].bucket = app.buckets[app.selected_bucket + 1].name
                     /\ NewMessages[i][1] = IF reqs'[i].ok
                                            THEN "Restore requested for {key}"
                                            ELSE "Restore failed for {key}: {detail}"
                     /\ NewMessages[i][2] = keys[i]]_vars

\* a Restore batch over three keys went on after the first request failed
C19_Witness ==
    /\ last \in ConfirmKeys
    /\ Len(reqs) = 3
    /\ \A j \in 1..3 : reqs[j].op = "request_restore" /\ reqs[j].days = 7
    /\ [j \in 1..3 |-> reqs[j].ok] = <<FALSE, TRUE, TRUE>>

BatchOps == {"request_restore", "transition_storage_class"}

\* C20: restore and transition requests are issued only while a confirm is
\* being handled, and that one handler issues the requests of every target
\* key and leaves no pending action, so no other event falls inside a batch;
\* each request is issued after the previous one has returned, that is after
\* the previous outcome was reported or, for the transition of a key, after
\* its restore succeeded; and a pending action ends only by a confirm or a
\* cancel in Confirming.
C20_BatchRunsUninterrupted ==
    [][/\ (\E j \in 1..Len(reqs') : reqs'[j].op \in BatchOps)
             => Handled("Confirming", ConfirmKeys)
       /\ (Handled("Confirming", ConfirmKeys)
              /\ (PendingIs(app, "Transition") \/ PendingIs(app, "Restore")))
             => /\ app'.pending_action = None
                /\ \A i \in 1..Len(target_keys(app)) :
                      \E j \in 1..Len(reqs') : /\ reqs'[j].op \in BatchOps
                                               /\ reqs'[j].key = target_keys(app)[i]
                /\ \A j \in 1..(Len(reqs') - 1) :
                      \/ reqs'[j + 1].at > reqs'[j].at
                      \/ /\ reqs'[j].op = "request_restore" /\ reqs'[j].ok
                         /\ reqs'[j + 1].op = "transition_storage_class"
                         /\ reqs'[j + 1].key = reqs'[j].key
       /\ (app.pending_action # None /\ app'.pending_action = None)
             => Handled("Confirming", ConfirmKeys \cup CancelKeys)]_vars

\* a restore-first batch over three keys has run to its end within the
\* handling of one confirm
C20_Witness ==
    /\ last \in ConfirmKeys
    /\ app.mode = "Browsing"
    /\ app.pending_action = None
    /\ Cardinality({reqs[j].key : j \in Requests(reqs, "request_restore")}) = 3
    /\ Cardinality(Requests(reqs, "transition_storage_class")) = 3
    /\ reqs[Len(reqs)].op = "list_objects"

\* C21: nothing is retried: the requests that one handled event issues hold,
\* for every key, at most one restore request and at most one transition
\* request, whether the request succeeded, failed or timed out, and such
\* requests are issued only by a confirm in Confirming, so a further request
\* for a key needs a new confirm.
C21_NoAutomaticRetry ==
    [][/\ \A j \in 1..Len(reqs') :
             /\ Cardinality(RequestsFor(reqs', "request_restore", reqs'[j].key)) <= 1
             /\ Cardinality(RequestsFor(reqs', "transition_storage_class",
                                        reqs'[j].key)) <= 1
       /\ (\E j \in 1..Len(reqs') : reqs'[j].op \in BatchOps)
              => Handled("Confirming", ConfirmKeys)]_vars

\* a confirmed batch in which the restore of one key timed out, the restore
\* of another was rejected, and each key got its one request
C21_Witness ==
    /\ last \in ConfirmKeys
    /\ \E i, j \in 1..Len(reqs) :
          /\ i # j
          /\ reqs[i].op = "request_restore" /\ ~reqs[i].ok
          /\ reqs[j].op = "request_restore" /\ ~reqs[j].ok
          /\ \E m \in 1..Len(app.pushed) :
                /\ app.pushed[m][1] = "Restore failed for {key}: {detail}"
                /\ app.pushed[m][2] = reqs[i].key
                /\ app.pushed[m][3] = describe_restore_error(TimeoutError)
          /\ \E m \in 1..Len(app.pushed) :
                /\ app.pushed[m][1] = "Restore failed for {key}: {detail}"
                /\ app.pushed[m][2] = reqs[j].key
                /\ app.pushed[m][3] = describe_restore_error(InvalidObjectState)
    /\ \A j \in 1..Len(reqs) :
          Cardinality(RequestsFor(reqs, "request_restore", reqs[j].key)) = 1

\* C22: starting a mask edit from Browsing while no mask is active leaves the
\* mask draft at its defaults (name "Untitled mask", empty pattern, kind
\* Prefix, case-insensitive), and cancelling a mask edit discards the draft.
C22_EditStartsFromDefaultDraft ==
    [][/\ (Handled("Browsing", {Char("m")}) /\ app.active_mask = None)
              => app'.mask_draft = MaskDraft_default
       /\ Handled("EditingMask", {Key("Esc")})
              => app'.mask_draft = MaskDraft_default]_vars

\* C23: the pending action created on entry to Confirming matches the intent
\* that led there.  Tier selection is entered only by 's', which records the
\* intent Transition, or by 'p', which records SavePolicy, and the intent is
\* kept while the selector is open; Enter in the selector creates
\* Transition{tier, restore_first = false} for the first and SavePolicy{tier}
\* for the second, tier being the entry under the cursor; 'r' in Browsing with
\* a bucket selected and a non-empty target key set creates Restore{days = 7}.
C23_PendingMatchesIntent ==
    [][/\ (app.mode # "SelectingStorageClass" /\ app'.mode = "SelectingStorageClass")
              => /\ Handled("Browsing", {Char("s"), Char("p")})
                 /\ app'.storage_intent = IF last' = Char("s") THEN "Transition"
                                          ELSE "SavePolicy"
       /\ app.mode = "SelectingStorageClass" => app'.storage_intent = app.storage_intent
       /\ Handled("SelectingStorageClass", {Key("Enter")})
              => /\ app'.mode = "Confirming"
                 /\ app'.pending_action =
                        Some(IF app.storage_intent = "Transition"
                             THEN PendingAction_Transition(
                                      selectable[app.storage_class_cursor + 1], FALSE)
                             ELSE PendingAction_SavePolicy(
                                      selectable[app.storage_class_cursor + 1]))
       /\ (/\ Handled("Browsing", {Char("r")})
           /\ selected_bucket_name(app) # None
           /\ target_keys(app) # <<>>)
              => /\ app'.mode = "Confirming"
                 /\ app'.pending_action = Some(PendingAction_Restore(7))]_vars

\* Enter in a selector opened by 'p' has created SavePolicy with the tier
\* under the cursor
C23_Witness ==
    /\ last = Key("Enter")
    /\ app.mode = "Confirming"
    /\ app.storage_intent = "SavePolicy"
    /\ app.pending_action =
           Some(PendingAction_SavePolicy(selectable[app.storage_class_cursor + 1]))

\* C24: 'o' in Confirming keeps the mode Confirming and the kind and tier of
\* the pending action.  When the pending action is Transition the key flips
\* restore_first, pushes one message and issues no request, and a second
\* toggle gives back the pending action as it was; when it is Restore or
\* SavePolicy the key changes nothing and pushes no message.
C24_ToggleRestoreFirst ==
    [][Handled("Confirming", {Char("o")}) =>
          /\ app'.mode = "Confirming"
          /\ loop' = "running"
          /\ reqs' = <<>>
          /\ policy_store' = policy_store
          /\ IF PendingIs(app, "Transition")
             THEN /\ app'.pending_action =
                         Some(PendingAction_Transition(
                                  Unwrap(app.pending_action).target_class,
                                  ~Unwrap(app.pending_action).restore_first))
                  /\ Len(NewMessages) = 1
                  /\ [app' EXCEPT !.pending_action = app.pending_action,
                                  !.pushed = app.pushed, !.status = app.status] = app
                  /\ toggle_restore_first(Ctx(app', <<>>, policy_store', Ok(FALSE)))
                         .app.pending_action = app.pending_action
             ELSE app' = app]_vars

\* a second 'o' has switched restore_first off again
C24_Witness ==
    /\ last = Char("o")
    /\ app.mode = "Confirming"
    /\ PendingIs(app, "Transition")
    /\ ~Unwrap(app.pending_action).restore_first
    /\ app.pushed[Len(app.pushed)] = <<"Restore before transition disabled">>
    /\ app.pushed[Len(app.pushed) - 1] = <<"Will request restore before transition">>

\* C25: the policy collection is an append log.  A confirmed SavePolicy that
\* succeeds appends exactly one policy (bucket = selected bucket name, mask =
\* active mask, target tier = chosen tier) at the end, also when the store
\* already holds an equal policy, and leaves the visible policy list equal to
\* the store's collection; no step removes, reorders or edits a stored policy.
C25_PolicyAppendLog ==
    [][/\ (/\ Handled("Confirming", ConfirmKeys)
           /\ PendingIs(app, "SavePolicy")
           /\ loop' = "running")
              => /\ policy_store' =
                        Append(policy_store,
                               MigrationPolicy_new(Unwrap(selected_bucket_name(app)),
                                                   Unwrap(app.active_mask),
                                                   Unwrap(app.pending_action).target_class,
                                                   FALSE, None))
                 /\ app'.policies = policy_store'
       /\ Len(policy_store') \in {Len(policy_store), Len(policy_store) + 1}
       /\ SubSeq(policy_store', 1, Len(policy_store)) = policy_store]_vars

\* the same policy has been saved twice and the store holds both
C25_Witness ==
    /\ last \in ConfirmKeys
    /\ Len(policy_store) = 2
    /\ policy_store[1] = policy_store[2]
    /\ app.policies = policy_store
    /\ app.pushed[Len(app.pushed)] = <<"Policy saved">>

\* C26: after every handler the filtered list is consistent with the mask:
\* with a mask active, filtered_objects is the unfiltered object list
\* restricted to the keys the mask matches, in the same order; with no mask
\* active, filtered_objects is empty and active_objects() is the unfiltered
\* list.  Enter in the mask editor on a non-empty pattern makes the draft the
\* active mask also when it matches no object (the filtered list is then
\* empty), reports the count as the last message and resets the selected
\* object index to 0.
C26_FilteredConsistentWithMask ==
    /\ [](/\ app.active_mask # None
               => app.filtered_objects =
                     filter_objects(app.objects, Unwrap(app.active_mask))
          /\ app.active_mask = None
               => /\ app.filtered_objects = <<>>
                  /\ active_objects(app) = app.objects)
    /\ [][(Handled("EditingMask", {Key("Enter")}) /\ app.mask_draft.pattern # <<>>)
             => /\ app'.active_mask = Some(draft_mask(app))
                /\ app'.selected_object = 0
                /\ app'.objects = app.objects
                /\ NewMessages =
                      IF filter_objects(app.objects, draft_mask(app)) = <<>>
                      THEN <<<<"Mask applied but matched no objects">>>>
                      ELSE <<<<"Mask '{}' matched {} objects", app.mask_draft.name,
                               Len(filter_objects(app.objects, draft_mask(app)))>>>>]_vars

\* a mask that matches none of the listed objects is active
C26_Witness ==
    /\ last = Key("Enter")
    /\ app.active_mask # None
    /\ app.objects # <<>>
    /\ app.filtered_objects = <<>>
    /\ app.pushed[Len(app.pushed)] = <<"Mask applied but matched no objects">>

\* C27: the tier cursor is 0 when tier selection begins and stays within
\* [0, number of selectable tiers - 1] under any sequence of Up and Down, so
\* every Transition or SavePolicy pending action carries a tier of the
\* selectable set, a tier the API accepts, and every transition request is
\* issued with such a tier.
C27_TierFromSelectable ==
    /\ [](/\ app.storage_class_cursor \in 0..(Len(selectable) - 1)
          /\ (PendingIs(app, "Transition") \/ PendingIs(app, "SavePolicy"))
               => /\ \E i \in 1..Len(selectable) :
                        Unwrap(app.pending_action).target_class = selectable[i]
                  /\ to_sdk_is_some(Unwrap(app.pending_action).target_class))
    /\ [][/\ (app.mode # "SelectingStorageClass" /\ app'.mode = "SelectingStorageClass")
                => app'.storage_class_cursor = 0
          /\ \A j \in 1..Len(reqs') :
                reqs'[j].op = "transition_storage_class"
                   => \E i \in 1..Len(selectable) : reqs'[j].tier = selectable[i]]_vars

\* Down on the last tier has left the cursor there, and Enter has created a
\* pending action with that tier
C27_Witness ==
    /\ nevents = 2
    /\ last = Key("Enter")
    /\ app.storage_class_cursor = Len(selectable) - 1
    /\ PendingIs(app, "Transition")
    /\ Unwrap(app.pending_action).target_class = selectable[Len(selectable)]

\* backends of one or two pages: each page holds one entry with a key, or
\* one with and one without; a truncated page names the next page, or (the
\* last page, or any page) carries no token
Contents == {<<Entry(<<"a">>)>>, <<Entry(<<"b">>), [key |-> None, storage_class |-> "Standard"]>>}

PagedBackends ==
    {<<Page(c, t, None)>> : c \in Contents, t \in {None, Some(FALSE), Some(TRUE)}}
    \cup {<<Page(c1, Some(TRUE), k), Page(c2, t, None)>> :
              c1 \in Contents, c2 \in Contents, k \in {None, Some(2)},
              t \in {None, Some(FALSE), Some(TRUE)}}

RECURSIVE AllObjects(_)
\* the objects of every page, in page order
AllObjects(pages) ==
    IF pages = <<>> THEN <<>>
    ELSE page_objects(Head(pages)[2].contents) \o AllObjects(Tail(pages))

\* C28: list_objects terminates for every backend that serves a finite
\* sequence of pages and returns every key of every page exactly once, in
\* page order, also when a page is marked truncated and carries no
\* continuation token; the object list a session holds after a listing is
\* such a materialized listing, sorted by key.
C28_ListObjectsTerminates ==
    /\ \A pages \in PagedBackends : list_objects(pages) = Ok(AllObjects(pages))
    /\ (Len(reqs) = 1 /\ reqs[1].op = "list_objects" /\ reqs[1].ok)
          => \E listed \in ListObjectsOutcomes :
                IsOk(listed) /\ app.objects = SortBy(listed[2], "key")

\* failures a backend call can end with, one or more of each category
BackendErrors ==
    {ServiceError(Some("NoSuchKey"), Some("The specified key does not exist.")),
     ServiceError(None, Some("boom")),
     ServiceError(Some("SlowDown"), None),
     InvalidObjectState,
     AccessDenied,
     [kind |-> "DispatchFailure", code |-> None, message |-> Some("connection refused")],
     TimeoutError,
     [kind |-> "ResponseError", code |-> None, message |-> Some("unexpected end of body")],
     IoError}

\* the message reports the failure `err` by the category and text that
\* describe_restore_error gives it
Classified(m, err) ==
    /\ m[1] = "Restore failed for {key}: {detail}"
    /\ m[3] = describe_restore_error(err)

\* C29: every per-key failure that a batch reports, of a restore request or
\* of a transition request, is reported by its category (service-rejected
\* with code and message or the friendlier text of the two known codes,
\* dispatch failure, timeout, malformed response, unknown with the raw
\* text), and reporting it issues no request: the batch issues one request
\* per report at most.
C29_FailuresClassified ==
    [][Handled("Confirming", ConfirmKeys) =>
          /\ \A j \in 1..Len(NewMessages) :
                IsFailure(NewMessages[j])
                   => \E err \in BackendErrors : Classified(NewMessages[j], err)
          /\ Cardinality({j \in 1..Len(NewMessages) : IsFailure(NewMessages[j])})
                <= Cardinality({j \in 1..Len(reqs') : ~reqs'[j].ok})]_vars

\* the messages by which load_objects_for_selection reported a listing
Loadings(a) ==
    {j \in 1..Len(a.pushed) : a.pushed[j][1] = "Loaded objects for bucket {}"}

\* the bucket whose listing the object list holds: the one named by the last
\* such message, set_objects having no other caller
ListedBucket(a) ==
    IF Loadings(a) = {} THEN None
    ELSE Some(a.pushed[CHOOSE j \in Loadings(a) : \A k \in Loadings(a) : k <= j][2])

\* C30: in every reachable state the unfiltered object list is empty or the
\* listing of the currently selected bucket, also after the bucket selection
\* has moved and after a bucket refresh, so every restore or transition
\* request is issued for a bucket and a key of a listing of that bucket.
C30_ObjectsOfSelectedBucket ==
    /\ [](app.objects # <<>> => selected_bucket_name(app) = ListedBucket(app))
    /\ [][\A j \in 1..Len(reqs') :
             reqs'[j].op \in BatchOps => Some(reqs'[j].bucket) = ListedBucket(app)]_vars

\* the modes entered from Browsing that are not the mask editor
ModalModes == {"SelectingStorageClass", "Confirming", "ShowingHelp", "ViewingLog"}

\* what a selection is made of
Selection(a) ==
    <<a.buckets, a.objects, a.filtered_objects, a.active_mask, a.selected_bucket,
      a.selected_object, a.policies>>

\* C31: while the mode is SelectingStorageClass, Confirming, ShowingHelp or
\* ViewingLog, no key event other than a confirm in Confirming changes the
\* bucket list, the object list, the filtered list, the active mask, the
\* selected bucket or object index, the policy list or the policy store, and
\* none issues a request; beginning a flow in Browsing changes none of them
\* either, so the target key set found when a batch is confirmed is the one
\* that met the precondition when the flow was begun.
C31_ModalModesKeepSelection ==
    [][/\ (/\ loop = "running"
           /\ app.mode \in ModalModes
           /\ ~(app.mode = "Confirming" /\ last' \in ConfirmKeys))
              => /\ Selection(app') = Selection(app)
                 /\ target_keys(app') = target_keys(app)
                 /\ policy_store' = policy_store
                 /\ reqs' = <<>>
       /\ (Handled("Browsing", {Char("s"), Char("r"), Char("p")})
           /\ app'.mode \in ModalModes)
              => /\ Selection(app') = Selection(app)
                 /\ target_keys(app') = target_keys(app)
                 /\ (last' # Char("p") => target_keys(app) # <<>>)]_vars

\* Down in the tier selector has moved the cursor and left the selected row
\* and the masked target keys alone
C31_Witness ==
    /\ app.mode = "SelectingStorageClass"
    /\ last = Key("Down")
    /\ app.storage_class_cursor = 1
    /\ app.selected_object = 0
    /\ app.active_mask # None
    /\ Len(target_keys(app)) >= 2

\* what handling Esc in state `a` with the store `store` leaves behind
AfterEsc(a, store) ==
    handle_key_event(Key("Esc"), Ctx(a, <<>>, store, Ok(FALSE)), Env0)

\* C32: while the loop runs, in every mode other than Browsing one Esc leads
\* to Browsing with no pending action, issues no backend call, leaves the
\* policy store alone and keeps the loop running; so from every state in
\* which the loop runs Browsing is one key away, and every Esc the loop
\* handles in such a mode does lead there.
C32_EscLeadsToBrowsing ==
    /\ []((loop = "running" /\ app.mode # "Browsing")
            => /\ AfterEsc(app, policy_store).app.mode = "Browsing"
               /\ AfterEsc(app, policy_store).app.pending_action = None
               /\ AfterEsc(app, policy_store).reqs = <<>>
               /\ AfterEsc(app, policy_store).store = policy_store
               /\ AfterEsc(app, policy_store).res = Ok(FALSE))
    /\ [][(loop = "running" /\ app.mode # "Browsing" /\ last' = Key("Esc")
            /\ (nevents' # nevents \/ input' # input))
             => /\ app'.mode = "Browsing"
                /\ app'.pending_action = None
                /\ reqs' = <<>>
                /\ loop' = "running"]_vars

\* Esc has closed a view opened over a masked listing
C32_Witness ==
    /\ loop = "running"
    /\ last = Key("Esc")
    /\ app.mode = "Browsing"
    /\ app.pending_action = None
    /\ reqs = <<>>
    /\ nevents = 2
    /\ app.active_mask # None
    /\ app.pushed[Len(app.pushed)][1] = "Mask '{}' matched {} objects"

\* C33: in every reachable state target_count(app) is the length of
\* target_keys(app), so the count that admits a transition or restore flow
\* is the size of the batch: a confirmed Restore issues that many restore
\* requests and a confirmed Transition that many rounds, one request for each
\* key in a round that is not skipped.
C33_TargetCountIsLenTargetKeys ==
    /\ [](target_count(app) = Len(target_keys(app)))
    /\ [][/\ (Handled("Confirming", ConfirmKeys) /\ PendingIs(app, "Restore")
               /\ selected_bucket_name(app) # None)
                => Cardinality(Requests(reqs', "request_restore")) = target_count(app)
          /\ (Handled("Confirming", ConfirmKeys) /\ PendingIs(app, "Transition")
               /\ selected_bucket_name(app) # None)
                => Cardinality({k \in {reqs'[j].key : j \in 1..Len(reqs')} :
                                    \E j \in 1..Len(reqs') :
                                        reqs'[j].key = k /\ reqs'[j].op \in BatchOps})
                      = target_count(app)
          /\ (Handled("Browsing", {Char("s"), Char("r")})
               /\ app'.mode \in {"SelectingStorageClass", "Confirming"})
                => Len(target_keys(app')) = target_count(app) /\ target_count(app) > 0]_vars

\* with no mask active and three objects listed, the restore of the one
\* selected row has been confirmed and one request was issued
C33_Witness ==
    /\ last \in ConfirmKeys
    /\ app.active_mask = None
    /\ Len(app.objects) = 3
    /\ target_count(app) = 1
    /\ Len(reqs) = 1
    /\ reqs[1].op = "request_restore"

\* C34: a confirmed Transition with restore_first = false issues no restore
\* request: its requests are one transition request per target key, in key
\* order, and then the relisting.  With restore_first = true every
\* transition request comes right after a restore request for the same key
\* that succeeded, and every restore request asks for 7 days.
C34_RestoreOnlyWhenAskedAndFirst ==
    [][(/\ Handled("Confirming", ConfirmKeys)
        /\ PendingIs(app, "Transition")
        /\ selected_bucket_name(app) # None
        /\ target_keys(app) # <<>>)
         => IF ~Unwrap(app.pending_action).restore_first
            THEN /\ Len(reqs') = Len(target_keys(app)) + 1
                 /\ \A i \in 1..Len(target_keys(app)) :
                       /\ reqs'[i].op = "transition_storage_class"
                       /\ reqs'[i].key = target_keys(app)[i]
                       /\ reqs'[i].tier = Unwrap(app.pending_action).target_class
                 /\ reqs'[Len(reqs')].op = "list_objects"
            ELSE /\ \A j \in 1..Len(reqs') :
                       reqs'[j].op = "transition_storage_class"
                          => /\ j > 1
                             /\ reqs'[j - 1].op = "request_restore"
                             /\ reqs'[j - 1].key = reqs'[j].key
                             /\ reqs'[j - 1].ok
                 /\ \A j \in 1..Len(reqs') :
                       reqs'[j].op = "request_restore" => reqs'[j].days = 7
                 /\ \A i \in 1..Len(target_keys(app)) :
                       Cardinality(RequestsFor(reqs', "request_restore",
                                               target_keys(app)[i])) = 1]_vars

\* a batch with restore_first set has asked for the restore of a key for 7
\* days and then for its transition
C34_Witness ==
    /\ last \in ConfirmKeys
    /\ Len(reqs) >= 3
    /\ reqs[1].op = "request_restore" /\ reqs[1].days = 7 /\ reqs[1].ok
    /\ reqs[2].op = "transition_storage_class" /\ reqs[2].key = reqs[1].key
    /\ reqs[Len(reqs)].op = "list_objects"

\* C35: a bucket refresh that fails and an inspect that fails (refused for
\* want of a bucket or an object, or failed at the backend) leave the bucket
\* list, the object list, the filtered list, the active mask, the selected
\* indexes, the policy list and the mode as they were, keep the loop running
\* and push exactly one failure message, for the refresh after the message
\* "Refreshing buckets...".  An inspect that succeeds replaces only the first
\* object with the inspected key, keeps the keys in their order and the
\* selected indexes, and recomputes the filtered list under the active mask.
C35_FailedRefreshKeepsSelection ==
    [][/\ (Handled("Browsing", {Char("f")}) /\ Len(reqs') = 1 /\ ~reqs'[1].ok)
             => /\ Selection(app') = Selection(app)
                /\ app'.mode = app.mode
                /\ loop' = "running"
                /\ Len(NewMessages) = 2
                /\ NewMessages[1] = <<"Refreshing buckets...">>
                /\ NewMessages[2][1] = "Bucket refresh failed: {err:#}"
       /\ (Handled("Browsing", {Char("i")}) /\ (reqs' = <<>> \/ ~reqs'[1].ok))
             => /\ Selection(app') = Selection(app)
                /\ app'.mode = app.mode
                /\ loop' = "running"
                /\ Len(NewMessages) = 1
                /\ NewMessages[1][1] = "Inspect failed: {err:#}"
       /\ (Handled("Browsing", {Char("i")}) /\ Len(reqs') = 1 /\ reqs'[1].ok)
             => /\ Len(app'.objects) = Len(app.objects)
                /\ \A i \in 1..Len(app.objects) :
                      /\ app'.objects[i].key = app.objects[i].key
                      /\ app'.objects[i] # app.objects[i]
                            => /\ app.objects[i].key = reqs'[1].key
                               /\ \A k \in 1..(i - 1) : app.objects[k].key # reqs'[1].key
                /\ app'.filtered_objects =
                      IF app.active_mask # None
                      THEN filter_objects(app'.objects, Unwrap(app.active_mask))
                      ELSE app.filtered_objects
                /\ app'.selected_object = app.selected_object
                /\ app'.selected_bucket = app.selected_bucket
                /\ app'.buckets = app.buckets
                /\ app'.active_mask = app.active_mask
                /\ app'.policies = app.policies
                /\ app'.mode = app.mode
                /\ NewMessages = <<<<"Object metadata refreshed">>>>]_vars

\* a bucket refresh has failed over a loaded and masked listing
C35_Witness ==
    /\ last = Char("f")
    /\ Len(reqs) = 1 /\ reqs[1].op = "list_buckets" /\ ~reqs[1].ok
    /\ app.buckets # <<>>
    /\ app.objects # <<>>
    /\ app.active_mask # None
    /\ app.mode = "Browsing"
    /\ app.pushed[Len(app.pushed)][1] = "Bucket refresh failed: {err:#}"

\* C36: in EditingMask with the Name or Pattern field focused, every
\* character key appends that character to the focused draft field and
\* changes nothing else: the focus, the match kind, the case-sensitivity,
\* the mode and the status log stay as they were.
C36_CharKeysAppendToFocusedField ==
    [][(/\ Handled("EditingMask", {Char(ch) : ch \in Chars})
        /\ app.mask_field \in {"Name", "Pattern"})
         => app' = IF app.mask_field = "Name"
                   THEN [app EXCEPT !.mask_draft.name = Append(@, last'.ch)]
                   ELSE [app EXCEPT !.mask_draft.pattern = Append(@, last'.ch)]]_vars

====
